---- MODULE Spec2Model ----
(***************************************************************************)
(* The lyrics synchronizer of custom_components/music_companion/lyrics.py  *)
(* (class LyricsSynchronizer) as a state machine.                          *)
(*                                                                         *)
(* One synchronizer object is modelled together with the asyncio tasks     *)
(* that run its coroutines.  A coroutine is cut at its awaits: the code    *)
(* between two awaits is one atomic step, and at an await any other ready  *)
(* task may run.  Synchronous callbacks (update_lyrics_display,            *)
(* handle_track_change) are single steps.  asyncio.create_task() appends   *)
(* to a FIFO queue of tasks that have not run yet.                         *)
(*                                                                         *)
(* Times: a media timecode is given in tenths of a second, timeline        *)
(* offsets in milliseconds, as in the code.                                *)
(***************************************************************************)
EXTENDS Integers, Sequences, FiniteSets, TLC

VARIABLES
    active,              \* self.active
    media_tracker,       \* self.media_tracker: "none", or the status of the tracker it refers to
    orphans,             \* trackers that are running and no longer referred to by the synchronizer
    timeline,            \* self.timeline
    lyrics,              \* self.lyrics
    current_line_index,  \* self.current_line_index
    task,                \* the coroutines start() / stop() in progress, by task
    pending,             \* tasks made by asyncio.create_task() that have not run yet (FIFO)
    watchdogs,           \* the _force_update_task loops alive, by where they are suspended
    sink,                \* the triple the rendering sink displays
    track,               \* the timeline lyricSplit returned for the track, given to every start()
    last,                \* the handler step taken last
    fresh,               \* self.last_update_time lies within the watchdog's window before now
    pushed,              \* a triple reached the sink within the watchdog's window before now
    raw,                 \* the text given to lyricSplit, line by line
    split,               \* what lyricSplit did with it
    fetch,               \* fetch_lyrics_for_track in progress: where it is suspended, its pos
    cadence,             \* one _force_update_task loop: its counter, its sleep, its window
    devices,             \* hass.data[DOMAIN]: the runtime data by key, and who is configured
    pushes,              \* update_lyrics_input_text calls in progress, the triple emitted last
    starts,              \* start() calls that overlap, each with the timeline it was given
    played,              \* the position the session was given last: at start(), then by each tick
    monitor              \* the playback monitors of one player: listeners, events, handlers in progress

\* What neither the synchronizer's steps nor those of a fetch touch.
apart == <<cadence, devices, pushes, starts, played, monitor>>

\* What the synchronizer's own steps leave alone.
aside == <<raw, split, fetch, apart>>

vars == <<active, media_tracker, orphans, timeline, lyrics, current_line_index,
          task, pending, watchdogs, sink, track, last, fresh, pushed, raw, split, fetch, cadence, devices, pushes, starts, played, monitor>>

----------------------------------------------------------------------------
(* Bounds of the model *)

NumCallers == 1      \* tasks that may call start() and stop() from outside
MaxStops == 1        \* stop() tasks made by create_task that are running at once
MaxPending == 1      \* length of the queue of created tasks that have not run yet
MaxWatchdogs == 2    \* watchdog loops alive or about to run
MaxTrackers == 2     \* trackers whose loop runs at once

----------------------------------------------------------------------------
(* Inputs *)

None == -1

Callers == 1..NumCallers
StopTasks == (NumCallers + 1)..(NumCallers + MaxStops)
TaskIds == Callers \cup StopTasks

\* Timelines as lyricSplit hands them to start(): offsets in input order.
Timelines == { <<0, 1000, 2000>>, <<1000, 1000, 3000>>, <<2000>>, <<0, 2000, 1000>> }

\* Media timecodes, in tenths of a second.
Timecodes == {5, 10, 12, 20, 25}

AllLines == <<"A", "B", "C">>

\* The lines lyricSplit pairs 1:1 with a timeline.
LinesFor(tl) == SubSeq(AllLines, 1, Len(tl))

----------------------------------------------------------------------------
(* Pure functions of the code *)

\* Python's seq[k], k counted from 0.
At(seq, k) == seq[k + 1]

\* position_ms = media_timecode * 1000, the timecode given in tenths of a second.
PositionMs(tc) == tc * 100

\* Variant: the interval test with a strict lower bound.
MatchesStrictLower(t, position_ms) ==
    { i \in 1..(Len(t) - 1) : At(t, i - 1) < position_ms /\ position_ms < At(t, i) }

\* The values i of "for i in range(1, len(timeline))" whose interval holds the position.
Matches(t, position_ms) ==
    { i \in 1..(Len(t) - 1) : At(t, i - 1) <= position_ms /\ position_ms < At(t, i) }

Min(S) == CHOOSE x \in S : \A y \in S : x <= y

\* The first i the loop stops at ("break"), or 0 when the loop ends without a match.
FindLine(t, position_ms) ==
    IF Matches(t, position_ms) = {} THEN 0 ELSE Min(Matches(t, position_ms))

\* previous_line, current_line, next_line for loop index i.
LineTriple(l, i) ==
    << IF i > 1 THEN At(l, i - 2) ELSE "",
       At(l, i - 1),
       IF i < Len(l) THEN At(l, i) ELSE "" >>

\* The radio-source search of start(): lines coming up within 10 seconds.
Upcoming(t, position_ms) ==
    { i \in 1..(Len(t) - 1) : At(t, i - 1) > position_ms /\ At(t, i - 1) < position_ms + 10000 }

FindUpcoming(t, position_ms) ==
    IF Upcoming(t, position_ms) = {} THEN 0 ELSE Min(Upcoming(t, position_ms))

Abs(x) == IF x < 0 THEN 0 - x ELSE x

\* min(range(len(timeline)), key=|timeline[i] - position_ms|): the first index of least distance.
ClosestIdx(t, position_ms) ==
    Min({ k \in 0..(Len(t) - 1) :
            \A j \in 0..(Len(t) - 1) : Abs(At(t, k) - position_ms) <= Abs(At(t, j) - position_ms) })

NoPush == <<>>
EmptyTriple == <<"", "", "">>
\* Variant: start() shows nothing while it loads.
LoadingTripleBlank(l) == <<"", "", "">>
LoadingTriple(l) == <<"", "Loading lyrics...", IF Len(l) > 0 THEN At(l, 0) ELSE "">>
\* Variant: the placeholder without the first line as next line.
WaitingTripleNoNext(l) == <<"", "Waiting for first line...", "">>
WaitingTriple(l) == <<"", "Waiting for first line...", At(l, 0)>>
FinishedTriple == <<"", "Lyrics finished", "">>
FirstLinesTriple(l) == IF Len(l) > 1 THEN <<"", At(l, 0), At(l, 1)>> ELSE <<"", At(l, 0), "">>
ComingUpTriple(l) == <<"", "Coming up...", At(l, 0)>>
EndOfLyricsTriple(l) == <<At(l, Len(l) - 1), "End of lyrics", "">>

\* Variant: the watchdog without its interval search, recovering by closest entry only.
ForcedTripleNoSearch(t, l, position_ms) ==
    IF Len(t) > 1 /\ Len(l) > 1
    THEN IF position_ms < At(t, 0) THEN ComingUpTriple(l)
         ELSE IF position_ms >= At(t, Len(t) - 1) THEN EndOfLyricsTriple(l)
         ELSE << IF ClosestIdx(t, position_ms) > 0 THEN At(l, ClosestIdx(t, position_ms) - 1) ELSE "",
                 At(l, ClosestIdx(t, position_ms)),
                 IF ClosestIdx(t, position_ms) < Len(l) - 1
                 THEN At(l, ClosestIdx(t, position_ms) + 1) ELSE "" >>
    ELSE IF Len(l) > 0 THEN LoadingTriple(l) ELSE NoPush

\* What one watchdog cycle displays for a position, lines 377-425.
ForcedTriple(t, l, position_ms) ==
    IF Len(t) > 1 /\ Len(l) > 1
    THEN IF FindLine(t, position_ms) # 0 THEN LineTriple(l, FindLine(t, position_ms))
         ELSE IF position_ms < At(t, 0) THEN ComingUpTriple(l)
         ELSE IF position_ms >= At(t, Len(t) - 1) THEN EndOfLyricsTriple(l)
         ELSE << IF ClosestIdx(t, position_ms) > 0 THEN At(l, ClosestIdx(t, position_ms) - 1) ELSE "",
                 At(l, ClosestIdx(t, position_ms)),
                 IF ClosestIdx(t, position_ms) < Len(l) - 1
                 THEN At(l, ClosestIdx(t, position_ms) + 1) ELSE "" >>
    ELSE IF Len(l) > 0 THEN LoadingTriple(l) ELSE NoPush

----------------------------------------------------------------------------
(* lyricSplit *)

\* Lines of a raw text that lyricSplit reads at most.
MaxRawLines == 2

\* time_parts[0] and time_parts[1] as they are written in a tag.
MinuteParts == {"00", "01", "0x"}
SecondParts == {"01.50", "02.01", "03.00", "", "inf"}

\* _time.split(':') of the tags of the model; <<"00">> is a tag without ':'.
TimeParts == { <<m, sec>> : m \in MinuteParts, sec \in SecondParts } \cup { <<"00">> }

\* What follows the tag on its line.
Rests == {"", " ", "Hello", "World"}

\* A line by the parts lyricSplit looks at.  lead: its first two characters;
\* closed: a "]" follows, so that \[.+?\] matches; time: _time.split(':');
\* rest: the line without its tag.
RawLine(lead, closed, time, rest) ==
    [lead |-> lead, closed |-> closed, time |-> time, rest |-> rest]

RawLines ==
    { RawLine("[0", TRUE, tp, r) : tp \in TimeParts, r \in Rests }
    \cup { RawLine("[0", FALSE, <<"00", "01.50">>, "Hello"),
           RawLine("[4", TRUE, <<"45", "01.50">>, "Hello"),
           RawLine("He", FALSE, <<"00">>, "Hello") }

RawTexts == UNION { [1..n -> RawLines] : n \in 0..MaxRawLines }

\* int(time_parts[0]); other strings raise ValueError.
IsInt(str) == str \in {"00", "01"}
IntOf(str) == IF str = "01" THEN 1 ELSE 0

\* float(time_parts[1]); other strings raise ValueError.  "inf" is a float.
IsFloat(str) == str \in {"01.50", "02.01", "03.00", "inf"}

\* The seconds of a finite float, in hundredths.
Centis(str) ==
    CASE str = "01.50" -> 150
      [] str = "02.01" -> 201
      [] str = "03.00" -> 300

\* (minutes, hundredths) whose double product (minutes * 60 + seconds) * 1000 lies
\* just below the integer: (0 * 60 + 2.01) * 1000 = 2009.9999999999998.
ShortProducts == { <<0, 201>> }

\* int((minutes * 60 + seconds) * 1000), computed in doubles.
Millis(minutes, centis) ==
    IF <<minutes, centis>> \in ShortProducts
    THEN minutes * 60000 + centis * 10 - 1
    ELSE minutes * 60000 + centis * 10

\* line.strip()
Strip(rest) == IF rest = " " THEN "" ELSE rest

Skipped == [kind |-> "skip", ms |-> 0, text |-> ""]

\* One turn of "for line in lyrics.splitlines()".
LineOutcome(line) ==
    IF line.lead \notin {"[0", "[1", "[2", "[3"} THEN Skipped
    ELSE IF ~line.closed THEN Skipped
    ELSE IF Strip(line.rest) = "" THEN Skipped
    ELSE IF ~IsInt(line.time[1]) THEN Skipped
    ELSE IF Len(line.time) < 2 THEN Skipped
    ELSE IF ~IsFloat(line.time[2]) THEN Skipped
    ELSE IF line.time[2] = "inf"
    THEN \* int(inf): OverflowError, which "except (ValueError, IndexError)" lets through
         [kind |-> "raise", ms |-> 0, text |-> ""]
    ELSE [kind |-> "pair",
          ms |-> Millis(IntOf(line.time[1]), Centis(line.time[2])),
          text |-> Strip(line.rest)]

\* What a call of lyricSplit came to: not called yet, raised, or returned (timeline, lrc).
NotCalled == [done |-> FALSE, raised |-> FALSE, timeline |-> <<>>, lrc |-> <<>>]

RECURSIVE SplitFrom(_, _, _)
SplitFrom(text, tl, lrc) ==
    IF text = <<>>
    THEN [done |-> TRUE, raised |-> FALSE, timeline |-> tl, lrc |-> lrc]
    ELSE IF LineOutcome(Head(text)).kind = "raise"
    THEN [done |-> TRUE, raised |-> TRUE, timeline |-> <<>>, lrc |-> <<>>]
    ELSE IF LineOutcome(Head(text)).kind = "pair"
    THEN SplitFrom(Tail(text), Append(tl, LineOutcome(Head(text)).ms),
                   Append(lrc, LineOutcome(Head(text)).text))
    ELSE SplitFrom(Tail(text), tl, lrc)

lyricSplit(text) == SplitFrom(text, <<>>, <<>>)

\* No fetch_lyrics_for_track is in progress.
NoFetch == [pc |-> "idle", pos |-> None]

\* No update_lyrics_input_text call is followed field by field.
NoPushes == [writers |-> <<>>, emitted |-> <<"", "", "">>]

\* hass.data[DOMAIN] is not followed.
NoDevices == [component |-> "none", entry |-> <<>>, data |-> <<>>, op |-> <<>>]

\* No _force_update_task loop is followed cycle by cycle.
NoCadence ==
    [pc |-> "off", initial_updates |-> 0, cycles |-> 0, sleeping |-> 0, slept |-> 0,
     window |-> 0, since |-> 0, forced |-> FALSE]

----------------------------------------------------------------------------
(* Tasks *)

\* pc: the await the coroutine is suspended at; nested: stop() was called by start().
IdleTask == [pc |-> "idle", nested |-> FALSE]

PushTask(triple) == [kind |-> "push", triple |-> triple]
StopTask == [kind |-> "stop", triple |-> NoPush]
WatchdogTask == [kind |-> "watchdog", triple |-> NoPush]

\* op: the handler; push: the triple it emitted for the sink (NoPush when none);
\* stop: whether it did asyncio.create_task(self.stop()).
Step(op, push, stop) == [op |-> op, push |-> push, stop |-> stop]

\* The steps that hand a triple to the sink themselves (a tick or a seek only creates
\* the task that will).
SinkWritten(step) ==
    \/ step.op = "display"
    \/ step.op \in {"start", "start_prime", "start_fallback", "stop", "stop_release", "watchdog"}
          /\ step.push # NoPush

\* Trackers whose loop runs: they call update_lyrics_display and handle_track_change.
RunningTrackers == (IF media_tracker = "running" THEN 1 ELSE 0) + orphans

\* Watchdog loops that exist: suspended in the loop, or created and not yet run.
QueuedWatchdogs == Cardinality({ k \in 1..Len(pending) : pending[k].kind = "watchdog" })
LiveWatchdogs == watchdogs.sleeping + watchdogs.pushing

\* The synchronizer drops its reference to the tracker it holds.
OrphansAfterDrop == IF media_tracker = "running" THEN orphans + 1 ELSE orphans

Init ==
    /\ track \in Timelines
    /\ active = FALSE
    /\ media_tracker = "none"
    /\ orphans = 0
    /\ timeline = <<>>
    /\ lyrics = <<>>
    /\ current_line_index = -1
    /\ task = [t \in TaskIds |-> IdleTask]
    /\ pending = <<>>
    /\ watchdogs = [sleeping |-> 0, pushing |-> 0]
    /\ sink = EmptyTriple
    /\ last = Step("init", NoPush, FALSE)
    /\ fresh = FALSE
    /\ pushed = FALSE
    /\ raw = <<>>
    /\ split = NotCalled
    /\ fetch = NoFetch
    /\ cadence = NoCadence
    /\ devices = NoDevices
    /\ pushes = NoPushes
    /\ starts = <<>>
    /\ played = None
    /\ monitor = <<>>

----------------------------------------------------------------------------
(* LyricsSynchronizer.stop *)

\* Variant: stop() without "if not self.active: return".
StopCallUnguarded(t, rec) ==
    /\ active' = FALSE
    /\ IF media_tracker # "none"
       THEN /\ media_tracker' = "stopped"
            /\ task' = [task EXCEPT ![t] = [rec EXCEPT !.pc = "stop_tracking"]]
            /\ last' = Step("stop", NoPush, FALSE)
            /\ UNCHANGED sink
       ELSE /\ sink' = EmptyTriple
            /\ task' = [task EXCEPT ![t] = [rec EXCEPT !.pc = "stop_push"]]
            /\ last' = Step("stop", EmptyTriple, FALSE)
            /\ UNCHANGED media_tracker

\* stop() from its call to its first suspension, run by task t; rec is the record of
\* the task when stop() suspends.
StopCall(t, rec) ==
    IF ~active
    THEN /\ task' = [task EXCEPT ![t] = IdleTask]
         /\ last' = Step("stop", NoPush, FALSE)
         /\ UNCHANGED <<active, media_tracker, sink>>
    ELSE /\ active' = FALSE
         /\ IF media_tracker # "none"
            THEN \* await self.media_tracker.stop_tracking()
                 /\ media_tracker' = "stopped"
                 /\ task' = [task EXCEPT ![t] = [rec EXCEPT !.pc = "stop_tracking"]]
                 /\ last' = Step("stop", NoPush, FALSE)
                 /\ UNCHANGED sink
            ELSE \* await update_lyrics_display(self.hass, "", "", "", ...)
                 /\ sink' = EmptyTriple
                 /\ task' = [task EXCEPT ![t] = [rec EXCEPT !.pc = "stop_push"]]
                 /\ last' = Step("stop", EmptyTriple, FALSE)
                 /\ UNCHANGED media_tracker

\* start() from "self.entity_id = entity_id" to the await of the loading push.
StartSetup(t) ==
    /\ timeline' = track
    /\ lyrics' = LinesFor(track)
    /\ current_line_index' = -1
    /\ sink' = LoadingTriple(LinesFor(track))
    /\ task' = [task EXCEPT ![t] = [IdleTask EXCEPT !.pc = "loading"]]
    /\ last' = Step("start", LoadingTriple(LinesFor(track)), FALSE)
    /\ fresh' = TRUE

\* A caller awaits stop() on the synchronizer (lines 708, 738, 910, 933).
Stop(c) ==
    /\ UNCHANGED <<track, fresh, aside>>
    /\ task[c].pc = "idle"
    /\ StopCall(c, IdleTask)
    /\ UNCHANGED <<orphans, timeline, lyrics, current_line_index, pending, watchdogs>>
    /\ pushed' = (pushed \/ SinkWritten(last'))

\* stop() resumes after stop_tracking(): releases the tracker and clears the sink.
StopRelease(t) ==
    /\ UNCHANGED <<track, fresh, aside>>
    /\ task[t].pc = "stop_tracking"
    /\ media_tracker' = "none"
    /\ orphans' = OrphansAfterDrop
    /\ sink' = EmptyTriple
    /\ task' = [task EXCEPT ![t].pc = "stop_push"]
    /\ last' = Step("stop_release", EmptyTriple, FALSE)
    /\ UNCHANGED <<active, timeline, lyrics, current_line_index, pending, watchdogs>>
    /\ pushed' = (pushed \/ SinkWritten(last'))

\* stop() resumes after the clearing push and returns; inside start(), start() goes on.
StopReturn(t) ==
    /\ UNCHANGED <<track, aside>>
    /\ task[t].pc = "stop_push"
    /\ IF task[t].nested
       THEN /\ StartSetup(t)
            /\ UNCHANGED <<active, media_tracker, orphans, pending, watchdogs>>
       ELSE /\ task' = [task EXCEPT ![t] = IdleTask]
            /\ last' = Step("stop_return", NoPush, FALSE)
            /\ UNCHANGED <<active, media_tracker, orphans, timeline, lyrics,
                           current_line_index, pending, watchdogs, sink, fresh>>
    /\ pushed' = (pushed \/ SinkWritten(last'))

----------------------------------------------------------------------------
(* LyricsSynchronizer.start *)

\* A caller awaits start(entity_id, timeline, lyrics, pos, updated_at, is_radio_source)
\* with timeline = track and lyrics = LinesFor(track).
Start(c) ==
    /\ UNCHANGED <<track, aside>>
    /\ task[c].pc = "idle"
    /\ IF active
       THEN /\ StopCall(c, [IdleTask EXCEPT !.nested = TRUE])
            /\ UNCHANGED <<orphans, timeline, lyrics, current_line_index, pending, watchdogs, fresh>>
       ELSE /\ StartSetup(c)
            /\ UNCHANGED <<active, media_tracker, orphans, pending, watchdogs>>
    /\ pushed' = (pushed \/ SinkWritten(last'))

\* Variant: priming without the default search.
PrimeLineRadioOnly(tl, position_ms, radio) ==
    IF Len(tl) = 0 THEN 0
    ELSE IF radio THEN FindUpcoming(tl, position_ms)
    ELSE 0

\* The loop index i start() primes the display with (lines 162-202), 0 when no search matches.
PrimeLine(tl, position_ms, radio) ==
    IF Len(tl) = 0 THEN 0
    ELSE IF radio /\ FindUpcoming(tl, position_ms) # 0 THEN FindUpcoming(tl, position_ms)
    ELSE FindLine(tl, position_ms)

\* start() from the fallback test (line 206) on; mt is the tracker self.media_tracker
\* holds, fallback whether the test is reached (pos and updated_at were given).
StartFallbackOrTrack(t, mt, fallback) ==
    IF fallback /\ current_line_index = -1 /\ Len(LinesFor(track)) > 0
    THEN /\ sink' = FirstLinesTriple(LinesFor(track))
         /\ media_tracker' = mt
         /\ task' = [task EXCEPT ![t] = [IdleTask EXCEPT !.pc = "fallback"]]
         /\ last' = Step("start_fallback", FirstLinesTriple(LinesFor(track)), FALSE)
    ELSE IF mt = "none"
    THEN \* self.media_tracker is None: AttributeError ends start()
         /\ media_tracker' = mt
         /\ task' = [task EXCEPT ![t] = IdleTask]
         /\ last' = Step("start_error", NoPush, FALSE)
         /\ UNCHANGED sink
    ELSE \* await self.media_tracker.start_tracking()
         /\ mt = "running" \/ OrphansAfterDrop < MaxTrackers
         /\ media_tracker' = "running"
         /\ task' = [task EXCEPT ![t] = [IdleTask EXCEPT !.pc = "start_tracking"]]
         /\ last' = Step("start_tracking", NoPush, FALSE)
         /\ UNCHANGED sink

\* start() resumes after the loading push: makes the tracker and primes the display.
\* pos (None when not given) and radio are the call's arguments, first read here.
StartPrime(t, pos, radio) ==
    /\ UNCHANGED <<track, fresh, aside>>
    /\ task[t].pc = "loading"
    /\ orphans' = OrphansAfterDrop
    /\ LET i == PrimeLine(track, PositionMs(pos), radio)
       IN  IF pos # None /\ i # 0
           THEN /\ media_tracker' = "created"
                /\ current_line_index' = i - 1
                /\ sink' = LineTriple(LinesFor(track), i)
                /\ task' = [task EXCEPT ![t] = [IdleTask EXCEPT !.pc = "primed"]]
                /\ last' = Step("start_prime", LineTriple(LinesFor(track), i), FALSE)
           ELSE /\ StartFallbackOrTrack(t, "created", pos # None)
                /\ UNCHANGED current_line_index
    /\ UNCHANGED <<active, timeline, lyrics, pending, watchdogs>>
    /\ pushed' = (pushed \/ SinkWritten(last'))

\* start() resumes after a priming push.
StartAfterPrime(t) ==
    /\ UNCHANGED <<track, fresh, aside>>
    /\ task[t].pc = "primed"
    /\ StartFallbackOrTrack(t, media_tracker, TRUE)
    /\ UNCHANGED <<active, orphans, timeline, lyrics, current_line_index, pending, watchdogs>>
    /\ pushed' = (pushed \/ SinkWritten(last'))

\* start() resumes after the fallback push.
StartAfterFallback(t) ==
    /\ UNCHANGED <<track, fresh, aside>>
    /\ task[t].pc = "fallback"
    /\ StartFallbackOrTrack(t, media_tracker, FALSE)
    /\ UNCHANGED <<active, orphans, timeline, lyrics, current_line_index, pending, watchdogs>>
    /\ pushed' = (pushed \/ SinkWritten(last'))

\* start() resumes after start_tracking(): the session is active, the watchdog is created.
StartActivate(t) ==
    /\ UNCHANGED <<track, fresh, aside>>
    /\ task[t].pc = "start_tracking"
    /\ Len(pending) < MaxPending
    /\ LiveWatchdogs + QueuedWatchdogs < MaxWatchdogs
    /\ active' = TRUE
    /\ pending' = Append(pending, WatchdogTask)
    /\ task' = [task EXCEPT ![t] = IdleTask]
    /\ last' = Step("start_done", NoPush, FALSE)
    /\ UNCHANGED <<media_tracker, orphans, timeline, lyrics, current_line_index, watchdogs, sink>>
    /\ pushed' = (pushed \/ SinkWritten(last'))

----------------------------------------------------------------------------
(* Callbacks of the position tracker *)

\* Room for one more task made by create_task.
CanCreateTask == Len(pending) < MaxPending

\* stop() tasks that exist: created and not yet run, or running.
SpawnedStops ==
    Cardinality({ k \in 1..Len(pending) : pending[k].kind = "stop" })
    + Cardinality({ s \in StopTasks : task[s].pc # "idle" })

CanCreateStop == CanCreateTask /\ SpawnedStops < MaxStops

\* What update_lyrics_display(media_timecode) resolves the position to: the kind of
\* place and, for a line or the wait before the first line, the index.
Resolved(kind, index) == [kind |-> kind, index |-> index]

\* Variant: the end test with a strict comparison.
FinishedStrict(position_ms) == position_ms > At(timeline, Len(timeline) - 1)

\* Variant: the display is pushed whether or not the index changed.
IndexChangedAlways(index) == TRUE

\* "if position_ms >= self.timeline[-1]": the lyrics are finished.
Finished(position_ms) == position_ms >= At(timeline, Len(timeline) - 1)

\* "if i-1 != self.current_line_index" and "if self.current_line_index != -1".
IndexChanged(index) == index # current_line_index

Resolve(tc) ==
    IF ~active \/ timeline = <<>> \/ lyrics = <<>> THEN Resolved("ignored", None)
    ELSE IF Finished(PositionMs(tc)) THEN Resolved("finished", None)
    ELSE IF FindLine(timeline, PositionMs(tc)) # 0
         THEN Resolved("line", FindLine(timeline, PositionMs(tc)) - 1)
    ELSE IF PositionMs(tc) < At(timeline, 0) THEN Resolved("waiting", -1)
    ELSE Resolved("nowhere", None)

\* The triple tick handling displays for a resolved place.
TickTriple(r) ==
    IF r.kind = "waiting" THEN WaitingTriple(lyrics) ELSE LineTriple(lyrics, r.index + 1)

\* LyricsSynchronizer.update_lyrics_display(media_timecode): one position tick.
Tick(tc) ==
    /\ UNCHANGED <<track, aside>>
    /\ RunningTrackers > 0
    /\ LET r == Resolve(tc)
       IN  IF r.kind = "finished"
           THEN \* asyncio.create_task(self.stop())
                /\ CanCreateStop
                /\ pending' = Append(pending, StopTask)
                /\ last' = Step("tick", NoPush, TRUE)
                /\ UNCHANGED current_line_index
           ELSE IF r.kind \in {"ignored", "nowhere"} \/ ~IndexChanged(r.index)
           THEN /\ last' = Step("tick", NoPush, FALSE)
                /\ UNCHANGED <<current_line_index, pending>>
           ELSE /\ CanCreateTask
                /\ current_line_index' = r.index
                /\ pending' = Append(pending, PushTask(TickTriple(r)))
                /\ last' = Step("tick", TickTriple(r), FALSE)
    /\ fresh' = IF Resolve(tc).kind = "ignored" THEN fresh ELSE TRUE
    /\ UNCHANGED <<active, media_tracker, orphans, timeline, lyrics, task, watchdogs, sink>>
    /\ pushed' = (pushed \/ SinkWritten(last'))

\* Variant: a track change that does not stop the session.
TrackChangeDropped ==
    /\ RunningTrackers > 0
    /\ last' = Step("track_change", NoPush, FALSE)
    /\ UNCHANGED <<active, media_tracker, orphans, timeline, lyrics, current_line_index,
                   task, pending, watchdogs, sink, track, fresh, pushed, aside>>

\* LyricsSynchronizer.handle_track_change(is_track_change=True).
TrackChange ==
    /\ UNCHANGED <<track, fresh, aside>>
    /\ RunningTrackers > 0
    /\ CanCreateStop
    /\ pending' = Append(pending, StopTask)
    /\ last' = Step("track_change", NoPush, TRUE)
    /\ UNCHANGED <<active, media_tracker, orphans, timeline, lyrics, current_line_index,
                   task, watchdogs, sink>>
    /\ pushed' = (pushed \/ SinkWritten(last'))

\* The triple a seek resynchronizes the display to, lines 317-346.
SeekTriple(position_ms) ==
    IF FindLine(timeline, position_ms) # 0 THEN LineTriple(lyrics, FindLine(timeline, position_ms))
    ELSE IF position_ms < At(timeline, 0) THEN WaitingTriple(lyrics)
    ELSE FinishedTriple

\* LyricsSynchronizer.handle_track_change(is_track_change=False): a seek; tc is what
\* calculate_current_position() returns, known whether media_position is not None.
Seek(tc, known) ==
    /\ UNCHANGED <<track, fresh, aside>>
    /\ RunningTrackers > 0
    /\ IF media_tracker # "none" /\ known
       THEN /\ CanCreateTask
            /\ current_line_index' = IF FindLine(timeline, PositionMs(tc)) # 0
                                     THEN FindLine(timeline, PositionMs(tc)) - 1 ELSE -1
            /\ pending' = Append(pending, PushTask(SeekTriple(PositionMs(tc))))
            /\ last' = Step("seek", SeekTriple(PositionMs(tc)), FALSE)
       ELSE /\ last' = Step("seek", NoPush, FALSE)
            /\ UNCHANGED <<current_line_index, pending>>
    /\ UNCHANGED <<active, media_tracker, orphans, timeline, lyrics, task, watchdogs, sink>>
    /\ pushed' = (pushed \/ SinkWritten(last'))

----------------------------------------------------------------------------
(* The event loop runs the oldest task made by create_task *)

FreeStopTask == Min({ s \in StopTasks : task[s].pc = "idle" })

\* update_lyrics_display(hass, previous_line, current_line, next_line): the sink shows the triple.
RunPush(triple) ==
    /\ sink' = triple
    /\ last' = Step("display", NoPush, FALSE)
    /\ UNCHANGED <<active, media_tracker, task, watchdogs>>

\* _force_update_task up to its first sleep: "while self.active".
RunWatchdog ==
    /\ watchdogs' = IF active THEN [watchdogs EXCEPT !.sleeping = @ + 1] ELSE watchdogs
    /\ last' = Step("watchdog_start", NoPush, FALSE)
    /\ UNCHANGED <<active, media_tracker, task, sink>>

RunTask ==
    /\ UNCHANGED <<track, fresh, aside>>
    /\ pending # <<>>
    /\ pending' = Tail(pending)
    /\ LET head == Head(pending)
       IN  CASE head.kind = "push" -> RunPush(head.triple)
             [] head.kind = "stop" -> StopCall(FreeStopTask, IdleTask) /\ UNCHANGED watchdogs
             [] head.kind = "watchdog" -> RunWatchdog
    /\ UNCHANGED <<orphans, timeline, lyrics, current_line_index>>
    /\ pushed' = (pushed \/ SinkWritten(last'))

----------------------------------------------------------------------------
(* LyricsSynchronizer._force_update_task *)

\* Variant: a loop that never tests self.active.
AfterCycleForever(from) ==
    IF from = "pushing"
    THEN [sleeping |-> watchdogs.sleeping + 1, pushing |-> watchdogs.pushing - 1]
    ELSE watchdogs

\* "while self.active": the loop sleeps again or ends.
AfterCycle(from) ==
    IF active
    THEN IF from = "pushing"
         THEN [sleeping |-> watchdogs.sleeping + 1, pushing |-> watchdogs.pushing - 1]
         ELSE watchdogs
    ELSE [watchdogs EXCEPT ![from] = @ - 1]

\* "time_since_update > window" as a watchdog reads it after its sleep.
Stale == ~fresh

\* Variant: a watchdog that also sets current_line_index to the line it forces.
WatchdogWakeResync(playing, tc) ==
    /\ UNCHANGED <<track, fresh, aside>>
    /\ watchdogs.sleeping > 0
    /\ LET triple == IF Stale /\ media_tracker # "none" /\ playing
                     THEN ForcedTriple(timeline, lyrics, PositionMs(tc)) ELSE NoPush
       IN  IF triple # NoPush
           THEN /\ sink' = triple
                /\ watchdogs' = [sleeping |-> watchdogs.sleeping - 1, pushing |-> watchdogs.pushing + 1]
                /\ last' = Step("watchdog", triple, FALSE)
                /\ current_line_index' = FindLine(timeline, PositionMs(tc)) - 1
           ELSE /\ watchdogs' = AfterCycle("sleeping")
                /\ last' = Step("watchdog", NoPush, FALSE)
                /\ UNCHANGED <<sink, current_line_index>>
    /\ UNCHANGED <<active, media_tracker, orphans, timeline, lyrics, task, pending>>
    /\ pushed' = (pushed \/ SinkWritten(last'))

\* Variant: a watchdog that forces a push whatever state the tracker reports.
WatchdogWakeAnyState(playing, tc) ==
    /\ UNCHANGED <<track, fresh, aside>>
    /\ watchdogs.sleeping > 0
    /\ LET triple == IF Stale /\ media_tracker # "none"
                     THEN ForcedTriple(timeline, lyrics, PositionMs(tc)) ELSE NoPush
       IN  IF triple # NoPush
           THEN /\ sink' = triple
                /\ watchdogs' = [sleeping |-> watchdogs.sleeping - 1, pushing |-> watchdogs.pushing + 1]
                /\ last' = Step("watchdog", triple, FALSE)
           ELSE /\ watchdogs' = AfterCycle("sleeping")
                /\ last' = Step("watchdog", NoPush, FALSE)
                /\ UNCHANGED sink
    /\ UNCHANGED <<active, media_tracker, orphans, timeline, lyrics, current_line_index,
                   task, pending>>
    /\ pushed' = (pushed \/ SinkWritten(last'))

\* A watchdog wakes from its sleep.  playing: media_tracker.state == "playing";
\* tc: calculate_current_position().
WatchdogWake(playing, tc) ==
    /\ UNCHANGED <<track, fresh, aside>>
    /\ watchdogs.sleeping > 0
    /\ LET triple == IF Stale /\ media_tracker # "none" /\ playing
                     THEN ForcedTriple(timeline, lyrics, PositionMs(tc)) ELSE NoPush
       IN  IF triple # NoPush
           THEN \* await update_lyrics_display(...)
                /\ sink' = triple
                /\ watchdogs' = [sleeping |-> watchdogs.sleeping - 1, pushing |-> watchdogs.pushing + 1]
                /\ last' = Step("watchdog", triple, FALSE)
           ELSE /\ watchdogs' = AfterCycle("sleeping")
                /\ last' = Step("watchdog", NoPush, FALSE)
                /\ UNCHANGED sink
    /\ UNCHANGED <<active, media_tracker, orphans, timeline, lyrics, current_line_index,
                   task, pending>>
    /\ pushed' = (pushed \/ SinkWritten(last'))

\* A watchdog resumes after its forced push.
WatchdogResume ==
    /\ UNCHANGED <<track, aside>>
    /\ watchdogs.pushing > 0
    /\ watchdogs' = AfterCycle("pushing")
    /\ last' = Step("watchdog_resume", NoPush, FALSE)
    /\ fresh' = TRUE
    /\ UNCHANGED <<active, media_tracker, orphans, timeline, lyrics, current_line_index,
                   task, pending, sink>>
    /\ pushed' = (pushed \/ SinkWritten(last'))

----------------------------------------------------------------------------
(* Time *)

\* A watchdog window of time passes in which nothing happens: what was written or
\* shown before is older than the window.  A push to the sink that is under way
\* takes less than a window.
Elapse ==
    /\ fresh \/ pushed
    /\ watchdogs.pushing = 0
    /\ fresh' = FALSE
    /\ pushed' = FALSE
    /\ last' = Step("elapse", NoPush, FALSE)
    /\ UNCHANGED <<active, media_tracker, orphans, timeline, lyrics, current_line_index,
                   task, pending, watchdogs, sink, track, aside>>

----------------------------------------------------------------------------
(* Failures of the sink *)

\* start() of an idle synchronizer whose loading push raises (hass.services.async_call
\* in update_lyrics_input_text, which catches nothing): the fields are assigned, the
\* exception leaves start() and reaches the caller.
StartSinkError(c) ==
    /\ UNCHANGED <<track, aside>>
    /\ task[c].pc = "idle"
    /\ ~active
    /\ timeline' = track
    /\ lyrics' = LinesFor(track)
    /\ current_line_index' = -1
    /\ fresh' = TRUE
    /\ last' = Step("start_sink_error", NoPush, FALSE)
    /\ UNCHANGED <<active, media_tracker, orphans, task, pending, watchdogs, sink>>
    /\ pushed' = (pushed \/ SinkWritten(last'))

\* A push task made by a tick or a seek whose push raises: the task ends.
RunPushError ==
    /\ UNCHANGED <<track, fresh, aside>>
    /\ pending # <<>>
    /\ Head(pending).kind = "push"
    /\ pending' = Tail(pending)
    /\ last' = Step("push_sink_error", NoPush, FALSE)
    /\ UNCHANGED <<active, media_tracker, orphans, timeline, lyrics, current_line_index,
                   task, watchdogs, sink>>
    /\ pushed' = (pushed \/ SinkWritten(last'))

\* "except Exception" is outside "while self.active": the loop has ended.
AfterError == [watchdogs EXCEPT !.sleeping = @ - 1]

\* A watchdog wakes, finds the last update stale and the player playing, and its
\* forced push (or the position snapshot before it) raises.
WatchdogError ==
    /\ UNCHANGED <<track, fresh, aside>>
    /\ watchdogs.sleeping > 0
    /\ Stale
    /\ media_tracker # "none"
    /\ watchdogs' = AfterError
    /\ last' = Step("watchdog_error", NoPush, FALSE)
    /\ UNCHANGED <<active, media_tracker, orphans, timeline, lyrics, current_line_index,
                   task, pending, sink>>
    /\ pushed' = (pushed \/ SinkWritten(last'))

----------------------------------------------------------------------------

Next ==
    \/ \E c \in Callers : Start(c)
    \/ \E c \in Callers : Stop(c)
    \/ \E t \in TaskIds : StopRelease(t)
    \/ \E t \in TaskIds : StopReturn(t)
    \/ \E c \in Callers, pos \in Timecodes \cup {None}, radio \in BOOLEAN : StartPrime(c, pos, radio)
    \/ \E c \in Callers : StartAfterPrime(c)
    \/ \E c \in Callers : StartAfterFallback(c)
    \/ \E c \in Callers : StartActivate(c)
    \/ \E tc \in Timecodes : Tick(tc)
    \/ TrackChange
    \/ \E known \in BOOLEAN : \E tc \in (IF known THEN Timecodes ELSE {None}) : Seek(tc, known)
    \/ RunTask
    \/ \E playing \in BOOLEAN :
          \E tc \in (IF playing THEN Timecodes ELSE {None}) : WatchdogWake(playing, tc)
    \/ WatchdogResume
    \/ Elapse
    \/ \E c \in Callers : StartSinkError(c)
    \/ RunPushError
    \/ WatchdogError

Spec == Init /\ [][Next]_vars

\* The timelines of the runs checked under fairness: one of three lines, one of one.
FairTimelines == { <<0, 1000, 2000>>, <<2000>> }

FairInit == Init /\ track \in FairTimelines

\* The event loop runs every task that is ready: a task made by create_task gets its
\* first turn, and a stop() suspended in stop_tracking() is resumed.
FairSpec ==
    /\ FairInit
    /\ [][Next]_vars
    /\ WF_vars(RunTask)
    /\ WF_vars(\E t \in TaskIds : StopRelease(t))

----------------------------------------------------------------------------
(* lyricSplit called on a raw text *)

ParseInit ==
    /\ raw \in RawTexts
    /\ split = NotCalled
    /\ fetch = NoFetch
    /\ cadence = NoCadence
    /\ devices = NoDevices
    /\ pushes = NoPushes
    /\ starts = <<>>
    /\ played = None
    /\ monitor = <<>>
    /\ track = <<2000>>
    /\ active = FALSE
    /\ media_tracker = "none"
    /\ orphans = 0
    /\ timeline = <<>>
    /\ lyrics = <<>>
    /\ current_line_index = -1
    /\ task = [t \in TaskIds |-> IdleTask]
    /\ pending = <<>>
    /\ watchdogs = [sleeping |-> 0, pushing |-> 0]
    /\ sink = EmptyTriple
    /\ last = Step("init", NoPush, FALSE)
    /\ fresh = FALSE
    /\ pushed = FALSE

Parse ==
    /\ ~split.done
    /\ split' = lyricSplit(raw)
    /\ UNCHANGED <<active, media_tracker, orphans, timeline, lyrics, current_line_index,
                   task, pending, watchdogs, sink, track, last, fresh, pushed, raw, fetch, apart>>

ParseNext == Parse

ParseSpec == ParseInit /\ [][ParseNext]_vars

----------------------------------------------------------------------------
(* fetch_lyrics_for_track *)

SearchingTriple == <<"", "Searching for lyrics...", "">>
NoLyricsTriple == <<"", "No lyrics found", "">>
NotSyncedTriple == <<"", "Lyrics not synced", "">>

\* The lines of the texts the lyrics provider returns in the runs of the fetch.
FetchLines ==
    { RawLine("[0", TRUE, <<"00", "01.50">>, "Hello"),
      RawLine("[0", TRUE, <<"00", "03.00">>, "World"),
      RawLine("[0", TRUE, <<"0x", "01.50">>, "Hello") }

FetchTexts == UNION { [1..n -> FetchLines] : n \in 0..MaxRawLines }

\* Variant: a fetch that goes on without a position.
MissingNever(pos) == FALSE

\* "if pos is None or updated_at is None", the two taken as one.
Missing(pos) == pos = None

\* Variant: a fetch that starts a session with whatever the parser returned.
RejectedNever(tl) == FALSE

\* "if not timeline"
Rejected(tl) == tl = <<>>

\* The timeline lyricSplit makes of a text, <<>> when it raises.
SplitTimeline(text) == lyricSplit(text).timeline

\* fetch_lyrics_for_track(pos, updated_at, ...) up to the await of its first push.
FetchBegin(c, pos) ==
    /\ fetch.pc = "idle"
    /\ task[c].pc = "idle"
    /\ fetch' = [pc |-> "searching", pos |-> pos]
    /\ sink' = SearchingTriple
    /\ last' = Step("fetch", SearchingTriple, FALSE)
    /\ pushed' = TRUE
    /\ UNCHANGED <<active, media_tracker, orphans, timeline, lyrics, current_line_index,
                   task, pending, watchdogs, track, fresh, raw, split, apart>>

\* The fetch calls provider.search: the text it will get (found: whether it gets one)
\* is the provider's from here on.
FetchSearch(pos, text, found) ==
    /\ fetch' = [pc |-> IF found THEN "lookup" ELSE "lookup_none", pos |-> pos]
    /\ raw' = text
    /\ track' = IF found THEN SplitTimeline(text) ELSE track
    /\ split' = NotCalled

\* The fetch resumes after its first push (lines 695-740).  player_pos: media_position
\* of the player when it is playing, None otherwise; same: the session shows this track
\* already and the call is not fingerprint-based.
FetchCheck(c, player_pos, same, text, found) ==
    /\ fetch.pc = "searching"
    /\ LET pos == IF fetch.pos = None THEN player_pos ELSE fetch.pos
       IN  IF Missing(pos)
           THEN IF active
                THEN \* await active_lyrics_sync.stop(); return
                     /\ StopCall(c, IdleTask)
                     /\ fetch' = [pc |-> "returning", pos |-> pos]
                     /\ UNCHANGED <<raw, split, track>>
                ELSE /\ fetch' = [pc |-> "idle", pos |-> pos]
                     /\ last' = Step("fetch_rejected", NoPush, FALSE)
                     /\ UNCHANGED <<active, media_tracker, task, sink, raw, split, track>>
           ELSE IF active /\ same /\ media_tracker # "none"
           THEN \* "Already displaying lyrics for this track"
                /\ fetch' = [pc |-> "idle", pos |-> pos]
                /\ last' = Step("fetch_skipped", NoPush, FALSE)
                /\ UNCHANGED <<active, media_tracker, task, sink, raw, split, track>>
           ELSE IF active
           THEN \* await active_lyrics_sync.stop()
                /\ StopCall(c, IdleTask)
                /\ fetch' = [pc |-> "stopping", pos |-> pos]
                /\ UNCHANGED <<raw, split, track>>
           ELSE /\ FetchSearch(pos, text, found)
                /\ last' = Step("fetch_search", NoPush, FALSE)
                /\ UNCHANGED <<active, media_tracker, task, sink>>
    /\ pushed' = (pushed \/ SinkWritten(last'))
    /\ UNCHANGED <<orphans, timeline, lyrics, current_line_index, pending, watchdogs, fresh, apart>>

\* The fetch resumes after the stop() it awaited.
FetchAfterStop(c, text, found) ==
    /\ fetch.pc \in {"stopping", "returning"}
    /\ task[c].pc = "idle"
    /\ IF fetch.pc = "returning"
       THEN /\ fetch' = [fetch EXCEPT !.pc = "idle"]
            /\ last' = Step("fetch_rejected", NoPush, FALSE)
            /\ UNCHANGED <<raw, split, track>>
       ELSE /\ FetchSearch(fetch.pos, text, found)
            /\ last' = Step("fetch_search", NoPush, FALSE)
    /\ UNCHANGED <<active, media_tracker, orphans, timeline, lyrics, current_line_index,
                   task, pending, watchdogs, sink, fresh, pushed, apart>>

\* The fetch resumes with the provider's answer (lines 786-809): no lyrics, a text that
\* lyricSplit raises on, a text without timeline, or a timeline it calls start() with.
FetchLookup(c) ==
    /\ fetch.pc \in {"lookup", "lookup_none"}
    /\ IF fetch.pc = "lookup_none"
       THEN /\ sink' = NoLyricsTriple
            /\ last' = Step("fetch", NoLyricsTriple, FALSE)
            /\ fetch' = [fetch EXCEPT !.pc = "idle"]
            /\ UNCHANGED <<active, media_tracker, timeline, lyrics, current_line_index,
                           task, split, fresh>>
       ELSE /\ split' = lyricSplit(raw)
            /\ IF lyricSplit(raw).raised
               THEN /\ fetch' = [fetch EXCEPT !.pc = "idle"]
                    /\ last' = Step("fetch_error", NoPush, FALSE)
                    /\ UNCHANGED <<active, media_tracker, timeline, lyrics, current_line_index,
                                   task, sink, fresh>>
               ELSE IF Rejected(lyricSplit(raw).timeline)
               THEN /\ sink' = NotSyncedTriple
                    /\ last' = Step("fetch", NotSyncedTriple, FALSE)
                    /\ fetch' = [fetch EXCEPT !.pc = "idle"]
                    /\ UNCHANGED <<active, media_tracker, timeline, lyrics, current_line_index,
                                   task, fresh>>
               ELSE \* await device_data[DEVICE_DATA_LYRICS_SYNC].start(...)
                    /\ fetch' = [fetch EXCEPT !.pc = "start"]
                    /\ IF active
                       THEN /\ StopCall(c, [IdleTask EXCEPT !.nested = TRUE])
                            /\ UNCHANGED <<timeline, lyrics, current_line_index, fresh>>
                       ELSE /\ StartSetup(c)
                            /\ fresh' = TRUE
                            /\ UNCHANGED <<active, media_tracker>>
    /\ pushed' = (pushed \/ last'.push # NoPush)
    /\ UNCHANGED <<orphans, pending, watchdogs, track, raw, apart>>

\* start() has returned to the fetch, which returns.
FetchReturn(c) ==
    /\ fetch.pc = "start"
    /\ task[c].pc = "idle"
    /\ fetch' = [fetch EXCEPT !.pc = "idle"]
    /\ last' = Step("fetch_done", NoPush, FALSE)
    /\ UNCHANGED <<active, media_tracker, orphans, timeline, lyrics, current_line_index,
                   task, pending, watchdogs, sink, track, fresh, pushed, raw, split, apart>>

FetchInit == Init /\ track = <<2000>>

\* The task the fetch runs in, start() and stop() included: it awaits them.
FetchCaller == 1

\* The inputs of a fetch that resumes: the player's position, whether the track is the
\* one on display, and what the provider will answer.
FetchChecks ==
    /\ fetch.pc = "searching"
    /\ \E player_pos \in Timecodes \cup {None}, same \in BOOLEAN,
          text \in FetchTexts, found \in BOOLEAN :
          (found \/ text = <<>>) /\ FetchCheck(FetchCaller, player_pos, same, text, found)

FetchAfterStops ==
    /\ fetch.pc \in {"stopping", "returning"}
    /\ \E text \in FetchTexts, found \in BOOLEAN :
          (found \/ text = <<>>) /\ FetchAfterStop(FetchCaller, text, found)

FetchNext ==
    \/ \E pos \in Timecodes \cup {None} : FetchBegin(FetchCaller, pos)
    \/ FetchChecks
    \/ FetchAfterStops
    \/ FetchLookup(FetchCaller)
    \/ FetchReturn(FetchCaller)
    \/ \E t \in TaskIds : StopRelease(t)
    \/ \E t \in TaskIds : StopReturn(t)
    \/ \E c \in Callers, radio \in BOOLEAN : StartPrime(c, fetch.pos, radio)
    \/ \E c \in Callers : StartAfterPrime(c)
    \/ \E c \in Callers : StartAfterFallback(c)
    \/ \E c \in Callers : StartActivate(c)
    \/ RunTask
    \/ WatchdogWake(FALSE, None)

FetchSpec == FetchInit /\ [][FetchNext]_vars

----------------------------------------------------------------------------
(* An active session over any timeline *)

\* Offsets of the timelines below, sorted or not.
Offsets == {0, 1000, 2000}

\* Every timeline of two or three entries lyricSplit can return over these offsets.
AnyTimelines == [1..2 -> Offsets] \cup [1..3 -> Offsets]

\* A session that start() has made active, its tracker running, its watchdog asleep.
Started ==
    /\ timeline = track
    /\ lyrics = LinesFor(track)
    /\ active = TRUE
    /\ media_tracker = "running"
    /\ orphans = 0
    /\ current_line_index = -1
    /\ task = [t \in TaskIds |-> IdleTask]
    /\ pending = <<>>
    /\ watchdogs = [sleeping |-> 1, pushing |-> 0]
    /\ sink = FirstLinesTriple(LinesFor(track))
    /\ last = Step("start_done", NoPush, FALSE)
    /\ fresh = TRUE
    /\ pushed = TRUE
    /\ raw = <<>>
    /\ split = NotCalled
    /\ fetch = NoFetch

ResolveInit ==
    /\ track \in AnyTimelines
    /\ Started
    /\ cadence = NoCadence
    /\ devices = NoDevices
    /\ pushes = NoPushes
    /\ starts = <<>>
    /\ played = None
    /\ monitor = <<>>

ResolveNext ==
    \/ \E tc \in Timecodes : Tick(tc)
    \/ \E tc \in Timecodes : WatchdogWake(TRUE, tc)
    \/ WatchdogResume
    \/ Elapse
    \/ RunTask
    \/ \E t \in TaskIds : StopRelease(t)

ResolveSpec == ResolveInit /\ [][ResolveNext]_vars

----------------------------------------------------------------------------
(* The cadence of one _force_update_task loop; times in tenths of a second *)

max_initial_updates == 5
initial_interval == 5
force_update_interval == 30

MaxCycles == 7       \* cycles of the loop that are counted
MaxSince == 40       \* cap on time_since_update

\* How long before the wake-up a tick last wrote last_update_time; None: no tick came
\* during the sleep.
TickAgos == {None, 0, 2, 4, 10}

\* The sleep the loop chooses with its counter at n (lines 358-362).
Interval(n) == IF n < max_initial_updates THEN initial_interval ELSE force_update_interval

\* The window line 368 compares time_since_update with, the counter at n.
Window(n) == IF n < max_initial_updates THEN 5 ELSE force_update_interval

Capped(x, cap) == IF x > cap THEN cap ELSE x

\* start() has made the session active and its loop has begun its first sleep.
CadenceInit ==
    /\ track = <<0, 1000, 2000>>
    /\ Started
    /\ cadence = [NoCadence EXCEPT !.pc = "asleep", !.sleeping = Interval(0)]
    /\ devices = NoDevices
    /\ pushes = NoPushes
    /\ starts = <<>>
    /\ played = None
    /\ monitor = <<>>

\* The loop wakes from its sleep (359/362), counts it (360), compares (365-368) and,
\* the player playing, forces a push and writes last_update_time (389, 420, 425); the
\* session being active, it chooses its next sleep (356-362).
\* jitter: by how much the sleep overran.
CadenceWake(jitter, tickAgo, playing) ==
    /\ cadence.pc = "asleep"
    /\ active
    /\ tickAgo # None => tickAgo <= cadence.sleeping + jitter
    /\ LET n == IF cadence.initial_updates < max_initial_updates
                THEN cadence.initial_updates + 1
                ELSE cadence.initial_updates
           time_since_update ==
                IF tickAgo = None
                THEN Capped(cadence.since + cadence.sleeping + jitter, MaxSince)
                ELSE tickAgo
           w == Window(n)
       IN  cadence' = [pc |-> "asleep",
                       initial_updates |-> n,
                       cycles |-> Capped(cadence.cycles + 1, MaxCycles),
                       sleeping |-> Interval(n),
                       slept |-> cadence.sleeping,
                       window |-> w,
                       since |-> IF time_since_update > w /\ playing
                                 THEN 0 ELSE time_since_update,
                       forced |-> time_since_update > w]
    /\ UNCHANGED <<active, media_tracker, orphans, timeline, lyrics, current_line_index,
                   task, pending, watchdogs, sink, track, last, fresh, pushed,
                   raw, split, fetch, devices, pushes, starts, played, monitor>>

CadenceNext ==
    \E jitter \in 0..1, tickAgo \in TickAgos, playing \in BOOLEAN :
        CadenceWake(jitter, tickAgo, playing)

CadenceSpec == CadenceInit /\ [][CadenceNext]_vars

----------------------------------------------------------------------------
(* The sink written field by field *)

MaxWriters == 2      \* update_lyrics_input_text calls in progress at once

\* update_lyrics_display(hass, ...) is called, by a created task or awaited: its three
\* service calls are yet to come.
Emitted(triple) ==
    [writers |-> Append(pushes.writers, [triple |-> triple, done |-> 0]),
     emitted |-> triple]

\* An active session whose display start() has just primed.
SinkInit ==
    /\ track = <<0, 1000, 2000>>
    /\ Started
    /\ cadence = NoCadence
    /\ devices = NoDevices
    /\ pushes = [writers |-> <<>>, emitted |-> FirstLinesTriple(LinesFor(track))]
    /\ starts = <<>>
    /\ played = None
    /\ monitor = <<>>

\* LyricsSynchronizer.update_lyrics_display(media_timecode) resolving to another line
\* or to the wait before the first line: it creates the task that pushes (275, 289).
SinkTick(tc) ==
    /\ Len(pushes.writers) < MaxWriters
    /\ Resolve(tc).kind \in {"line", "waiting"}
    /\ Resolve(tc).index # current_line_index
    /\ current_line_index' = Resolve(tc).index
    /\ pushes' = Emitted(TickTriple(Resolve(tc)))
    /\ last' = Step("tick", TickTriple(Resolve(tc)), FALSE)
    /\ fresh' = TRUE
    /\ UNCHANGED <<active, media_tracker, orphans, timeline, lyrics, task, pending,
                   watchdogs, sink, track, pushed, raw, split, fetch, cadence, devices, starts, played, monitor>>

\* stop() on the active session, up to its call of update_lyrics_display (224-236).
SinkStop ==
    /\ Len(pushes.writers) < MaxWriters
    /\ active
    /\ active' = FALSE
    /\ media_tracker' = "none"
    /\ pushes' = Emitted(EmptyTriple)
    /\ last' = Step("stop", EmptyTriple, FALSE)
    /\ UNCHANGED <<orphans, timeline, lyrics, current_line_index, task, pending,
                   watchdogs, sink, track, fresh, pushed, raw, split, fetch, cadence,
                   devices, starts, played, monitor>>

\* The call in progress at k resumes and makes its next service call (588-590): line1,
\* line2, line3 in turn; after the third it returns.
SinkWrite(k) ==
    /\ k \in 1..Len(pushes.writers)
    /\ LET w == pushes.writers[k]
       IN  /\ sink' = [sink EXCEPT ![w.done + 1] = w.triple[w.done + 1]]
           /\ pushes' = [pushes EXCEPT !.writers =
                            IF w.done = 2
                            THEN SubSeq(@, 1, k - 1) \o SubSeq(@, k + 1, Len(@))
                            ELSE [@ EXCEPT ![k].done = w.done + 1]]
    /\ last' = Step("display", NoPush, FALSE)
    /\ pushed' = TRUE
    /\ UNCHANGED <<active, media_tracker, orphans, timeline, lyrics, current_line_index,
                   task, pending, watchdogs, track, fresh, raw, split, fetch, cadence,
                   devices, starts, played, monitor>>

SinkNext ==
    \/ \E tc \in Timecodes : SinkTick(tc)
    \/ SinkStop
    \/ \E k \in 1..MaxWriters : SinkWrite(k)

SinkSpec == SinkInit /\ [][SinkNext]_vars

----------------------------------------------------------------------------
(* The poll cycle of the tracker *)

\* A poll cycle without event: the tracker re-seeds its state from the sample.
PollQuiet ==
    /\ RunningTrackers > 0
    /\ last' = Step("poll", NoPush, FALSE)
    /\ UNCHANGED <<active, media_tracker, orphans, timeline, lyrics, current_line_index,
                   task, pending, watchdogs, sink, track, fresh, pushed, aside>>

\* Reconciliation of a fresh sample by a tracker whose loop runs.  differs: the sample's
\* media identity is not the last one recorded; deviates: its position is further from
\* the estimate than the tolerance; tc: the position the tracker is re-seeded with.
Poll(differs, deviates, tc) ==
    IF differs THEN TrackChange
    ELSE IF deviates THEN Seek(tc, TRUE)
    ELSE PollQuiet

PollNext ==
    \/ \E c \in Callers : Start(c)
    \/ \E c \in Callers : Stop(c)
    \/ \E t \in TaskIds : StopRelease(t)
    \/ \E t \in TaskIds : StopReturn(t)
    \/ \E c \in Callers, pos \in Timecodes \cup {None}, radio \in BOOLEAN : StartPrime(c, pos, radio)
    \/ \E c \in Callers : StartAfterPrime(c)
    \/ \E c \in Callers : StartAfterFallback(c)
    \/ \E c \in Callers : StartActivate(c)
    \/ \E tc \in Timecodes : Tick(tc)
    \/ \E differs \in BOOLEAN, deviates \in BOOLEAN, tc \in Timecodes : Poll(differs, deviates, tc)
    \/ RunTask
    \/ \E playing \in BOOLEAN :
          \E tc \in (IF playing THEN Timecodes ELSE {None}) : WatchdogWake(playing, tc)
    \/ WatchdogResume
    \/ Elapse

PollInit == Init /\ track = <<0, 1000, 2000>>

PollSpec == PollInit /\ [][PollNext]_vars

----------------------------------------------------------------------------
(* The runtime data of several media players *)

NumPlayers == 2      \* media players the services are called for
NumMedia == 2        \* media_content_id values

Players == 1..NumPlayers
MediaIds == 1..NumMedia

\* The two integrations of the repository.
Components == {"music_companion", "tagging_and_lyrics"}

\* get_device_data: hass.data[DOMAIN][f"{entry_id}_runtime"], "default" without entry_id.
RuntimeKey(entry_id) == IF entry_id = None THEN <<"default">> ELSE <<"entry", entry_id>>

\* tagging_and_lyrics: LAST_MEDIA_CONTENT_ID and ACTIVE_LYRICS_SYNC are module globals.
GlobalKey == <<"global">>

\* Where the operations for a player keep the synchronizer and the last media id.
KeyOf(p) ==
    IF devices.component = "music_companion"
    THEN RuntimeKey(devices.entry[p])
    ELSE GlobalKey

Keys == {<<"default">>, GlobalKey} \cup {<<"entry", p>> : p \in Players}

\* get_device_data lines 52-55: no synchronizer, no media id.
NewData == [sync |-> "none", objects |-> 0, last_media |-> None, entity |-> None]

\* The entry ids handle_fetch_lyrics finds for the players (840-864): the entry whose
\* media_player_entity is the player, None when there is none.  Entry p is player p's.
Entries == { e \in [Players -> Players \cup {None}] : \A p \in Players : e[p] \in {p, None} }

DeviceInit ==
    /\ track = <<2000>>
    /\ active = FALSE
    /\ media_tracker = "none"
    /\ orphans = 0
    /\ timeline = <<>>
    /\ lyrics = <<>>
    /\ current_line_index = -1
    /\ task = [t \in TaskIds |-> IdleTask]
    /\ pending = <<>>
    /\ watchdogs = [sleeping |-> 0, pushing |-> 0]
    /\ sink = EmptyTriple
    /\ last = Step("init", NoPush, FALSE)
    /\ fresh = FALSE
    /\ pushed = FALSE
    /\ raw = <<>>
    /\ split = NotCalled
    /\ fetch = NoFetch
    /\ cadence = NoCadence
    /\ pushes = NoPushes
    /\ starts = <<>>
    /\ played = None
    /\ monitor = <<>>
    /\ \E c \in Components, e \in Entries :
          devices = [component |-> c, entry |-> e, data |-> [k \in Keys |-> NewData],
                     op |-> [kind |-> "init", player |-> None]]

\* stop() of the synchronizer the data holds, called when it is active.
Stopped(d) == IF d.sync = "active" THEN [d EXCEPT !.sync = "idle"] ELSE d

\* fetch_lyrics_for_track for player p, as a whole.  has_pos: a position is known;
\* same: the active session shows the track already and the call is not
\* fingerprint-based; media: the player's media_content_id; synced: the provider
\* returns a text with a timeline.
DeviceFetch(p, has_pos, same, media, synced) ==
    /\ LET k == KeyOf(p)
           d == devices.data[k]
           d2 == IF ~has_pos
                 THEN Stopped(d)
                 ELSE IF d.sync = "active" /\ same /\ d.entity = p
                 THEN d
                 ELSE IF ~synced
                 THEN [Stopped(d) EXCEPT !.last_media = media]
                 ELSE [d EXCEPT !.last_media = media,
                                !.objects = IF d.sync = "none" THEN d.objects + 1
                                                              ELSE d.objects,
                                !.sync = "active",
                                !.entity = p]
       IN  devices' = [devices EXCEPT !.data[k] = d2,
                                      !.op = [kind |-> "fetch", player |-> p]]
    /\ UNCHANGED <<active, media_tracker, orphans, timeline, lyrics, current_line_index,
                   task, pending, watchdogs, sink, track, last, fresh, pushed,
                   raw, split, fetch, cadence, pushes, starts, played, monitor>>

\* monitor_playback_event for player p, now playing: a radio station, or content that
\* differs from the last media id; the fetch it schedules is a DeviceFetch.
\* The listener is registered by handle_fetch_lyrics after its fetch (line 941).
DeviceMonitor(p, media, radio) ==
    /\ devices.op.kind # "init"
    /\ LET k == KeyOf(p)
           d == devices.data[k]
       IN  /\ radio \/ media # d.last_media
           /\ devices' = [devices EXCEPT !.data[k] = [Stopped(d) EXCEPT !.last_media = media],
                                          !.op = [kind |-> "monitor", player |-> p]]
    /\ UNCHANGED <<active, media_tracker, orphans, timeline, lyrics, current_line_index,
                   task, pending, watchdogs, sink, track, last, fresh, pushed,
                   raw, split, fetch, cadence, pushes, starts, played, monitor>>

\* The session of player p ends by itself: a tick past the last entry, or the track
\* change its tracker reports.
DeviceTickEnd(p) ==
    /\ LET k == KeyOf(p)
           d == devices.data[k]
       IN  /\ d.sync = "active"
           /\ d.entity = p
           /\ devices' = [devices EXCEPT !.data[k] = Stopped(d),
                                          !.op = [kind |-> "tick", player |-> p]]
    /\ UNCHANGED <<active, media_tracker, orphans, timeline, lyrics, current_line_index,
                   task, pending, watchdogs, sink, track, last, fresh, pushed,
                   raw, split, fetch, cadence, pushes, starts, played, monitor>>

DeviceNext ==
    \/ \E p \in Players, has_pos \in BOOLEAN, same \in BOOLEAN, media \in MediaIds,
          synced \in BOOLEAN : DeviceFetch(p, has_pos, same, media, synced)
    \/ \E p \in Players, media \in MediaIds, radio \in BOOLEAN : DeviceMonitor(p, media, radio)
    \/ \E p \in Players : DeviceTickEnd(p)

DeviceSpec == DeviceInit /\ [][DeviceNext]_vars

----------------------------------------------------------------------------
(* start() calls that overlap on one synchronizer *)

NumStarts == 2       \* start() calls that may overlap

\* The start() calls followed, each with the timeline it was called with.
StartCalls == 1..NumStarts

\* A synchronizer whose last session was stopped: its timeline, lyrics and index stay.
OverlapInit ==
    /\ track = <<0, 1000, 2000>>
    /\ active = FALSE
    /\ media_tracker = "none"
    /\ orphans = 0
    /\ timeline = track
    /\ lyrics = LinesFor(track)
    /\ current_line_index \in {-1, 0, 1}
    /\ task = [t \in TaskIds |-> IdleTask]
    /\ pending = <<>>
    /\ watchdogs = [sleeping |-> 0, pushing |-> 0]
    /\ sink = EmptyTriple
    /\ last = Step("stop_return", NoPush, FALSE)
    /\ fresh = FALSE
    /\ pushed = FALSE
    /\ raw = <<>>
    /\ split = NotCalled
    /\ fetch = NoFetch
    /\ cadence = NoCadence
    /\ devices = NoDevices
    /\ pushes = NoPushes
    /\ starts = [k \in StartCalls |-> [pc |-> "idle", timeline |-> <<>>]]
    /\ played = None
    /\ monitor = <<>>

\* start(entity_id, timeline = tl, lyrics = LinesFor(tl), ...) called while no session is
\* active: from "self.entity_id = entity_id" to the await of the loading push (123-140).
OverlapStart(k, tl) ==
    /\ starts[k].pc = "idle"
    /\ ~active
    /\ timeline' = tl
    /\ lyrics' = LinesFor(tl)
    /\ current_line_index' = -1
    /\ sink' = LoadingTriple(LinesFor(tl))
    /\ starts' = [starts EXCEPT ![k] = [pc |-> "loading", timeline |-> tl]]
    /\ last' = Step("start", LoadingTriple(LinesFor(tl)), FALSE)
    /\ fresh' = TRUE
    /\ pushed' = TRUE
    /\ UNCHANGED <<active, media_tracker, orphans, task, pending, watchdogs, track,
                   raw, split, fetch, cadence, devices, pushes, played, monitor>>

\* The call resumes after the loading push: it makes its tracker and searches the
\* timeline it was called with, which is its argument and not self.timeline (143-199).
OverlapPrime(k, pos, radio) ==
    /\ starts[k].pc = "loading"
    /\ media_tracker' = "created"
    /\ orphans' = OrphansAfterDrop
    /\ LET tl == starts[k].timeline
           i == PrimeLine(tl, PositionMs(pos), radio)
       IN  IF pos # None /\ i # 0
           THEN /\ current_line_index' = i - 1
                /\ sink' = LineTriple(LinesFor(tl), i)
                /\ starts' = [starts EXCEPT ![k].pc = "primed"]
                /\ last' = Step("start_prime", LineTriple(LinesFor(tl), i), FALSE)
           ELSE IF pos # None /\ current_line_index = -1 /\ Len(tl) > 0
           THEN /\ sink' = FirstLinesTriple(LinesFor(tl))
                /\ starts' = [starts EXCEPT ![k].pc = "fallback"]
                /\ last' = Step("start_fallback", FirstLinesTriple(LinesFor(tl)), FALSE)
                /\ UNCHANGED current_line_index
           ELSE /\ media_tracker' = "running"
                /\ starts' = [starts EXCEPT ![k].pc = "start_tracking"]
                /\ last' = Step("start_tracking", NoPush, FALSE)
                /\ UNCHANGED <<current_line_index, sink>>
    /\ pushed' = (pushed \/ SinkWritten(last'))
    /\ UNCHANGED <<active, timeline, lyrics, task, pending, watchdogs, track, fresh,
                   raw, split, fetch, cadence, devices, pushes, played, monitor>>

\* The call resumes after its priming or fallback push: the fallback test after a
\* priming push (203), then "await self.media_tracker.start_tracking()" (213).
OverlapResume(k) ==
    /\ starts[k].pc \in {"primed", "fallback"}
    /\ LET tl == starts[k].timeline
       IN  IF starts[k].pc = "primed" /\ current_line_index = -1 /\ Len(tl) > 0
           THEN /\ sink' = FirstLinesTriple(LinesFor(tl))
                /\ starts' = [starts EXCEPT ![k].pc = "fallback"]
                /\ last' = Step("start_fallback", FirstLinesTriple(LinesFor(tl)), FALSE)
                /\ UNCHANGED media_tracker
           ELSE IF media_tracker = "none"
           THEN /\ starts' = [starts EXCEPT ![k].pc = "done"]
                /\ last' = Step("start_error", NoPush, FALSE)
                /\ UNCHANGED <<media_tracker, sink>>
           ELSE /\ media_tracker' = "running"
                /\ starts' = [starts EXCEPT ![k].pc = "start_tracking"]
                /\ last' = Step("start_tracking", NoPush, FALSE)
                /\ UNCHANGED sink
    /\ pushed' = (pushed \/ SinkWritten(last'))
    /\ UNCHANGED <<active, orphans, timeline, lyrics, current_line_index, task, pending,
                   watchdogs, track, fresh, raw, split, fetch, cadence, devices, pushes, played, monitor>>

\* The call resumes after start_tracking(): the session is active, the watchdog is
\* created (214-217).
OverlapActivate(k) ==
    /\ starts[k].pc = "start_tracking"
    /\ Len(pending) < MaxPending
    /\ LiveWatchdogs + QueuedWatchdogs < MaxWatchdogs
    /\ active' = TRUE
    /\ pending' = Append(pending, WatchdogTask)
    /\ starts' = [starts EXCEPT ![k].pc = "done"]
    /\ last' = Step("start_done", NoPush, FALSE)
    /\ UNCHANGED <<media_tracker, orphans, timeline, lyrics, current_line_index, task,
                   watchdogs, sink, track, fresh, pushed, raw, split, fetch, cadence,
                   devices, pushes, played, monitor>>

OverlapNext ==
    \/ \E k \in StartCalls, tl \in Timelines : OverlapStart(k, tl)
    \/ \E k \in StartCalls, pos \in Timecodes \cup {None}, radio \in BOOLEAN :
          OverlapPrime(k, pos, radio)
    \/ \E k \in StartCalls : OverlapResume(k)
    \/ \E k \in StartCalls : OverlapActivate(k)
    \/ \E tc \in Timecodes : Tick(tc)
    \/ RunTask
    \/ \E t \in TaskIds : StopRelease(t)
    \/ \E t \in TaskIds : StopReturn(t)

OverlapSpec == OverlapInit /\ [][OverlapNext]_vars

----------------------------------------------------------------------------
(* A session whose positions never go back *)

\* The state start(entity_id, track, LinesFor(track), pos, updated_at, radio) leaves when
\* nothing interleaves with it: the index and the display it primed (162-210), the
\* tracker started, the session active, the watchdog asleep (213-217).
Primed(pos, radio) ==
    LET i == PrimeLine(track, PositionMs(pos), radio)
    IN  /\ timeline = track
        /\ lyrics = LinesFor(track)
        /\ active = TRUE
        /\ media_tracker = "running"
        /\ orphans = 0
        /\ current_line_index = IF i # 0 THEN i - 1 ELSE -1
        /\ sink = IF i # 0 THEN LineTriple(LinesFor(track), i)
                  ELSE FirstLinesTriple(LinesFor(track))
        /\ task = [t \in TaskIds |-> IdleTask]
        /\ pending = <<>>
        /\ watchdogs = [sleeping |-> 1, pushing |-> 0]
        /\ last = Step("start_done", NoPush, FALSE)
        /\ fresh = TRUE
        /\ pushed = TRUE
        /\ raw = <<>>
        /\ split = NotCalled
        /\ fetch = NoFetch
        /\ played = pos

ForwardInit ==
    /\ track \in Timelines
    /\ \E pos \in Timecodes, radio \in BOOLEAN : Primed(pos, radio)
    /\ cadence = NoCadence
    /\ devices = NoDevices
    /\ pushes = NoPushes
    /\ starts = <<>>
    /\ monitor = <<>>

\* LyricsSynchronizer.update_lyrics_display(media_timecode) for a position that is not
\* before the one the session was given last (240-293).
ForwardTick(tc) ==
    /\ tc >= played
    /\ RunningTrackers > 0
    /\ played' = tc
    /\ LET r == Resolve(tc)
       IN  IF r.kind = "finished"
           THEN /\ CanCreateStop
                /\ pending' = Append(pending, StopTask)
                /\ last' = Step("tick", NoPush, TRUE)
                /\ UNCHANGED current_line_index
           ELSE IF r.kind \in {"ignored", "nowhere"} \/ ~IndexChanged(r.index)
           THEN /\ last' = Step("tick", NoPush, FALSE)
                /\ UNCHANGED <<current_line_index, pending>>
           ELSE /\ CanCreateTask
                /\ current_line_index' = r.index
                /\ pending' = Append(pending, PushTask(TickTriple(r)))
                /\ last' = Step("tick", TickTriple(r), FALSE)
    /\ fresh' = IF Resolve(tc).kind = "ignored" THEN fresh ELSE TRUE
    /\ UNCHANGED <<active, media_tracker, orphans, timeline, lyrics, task, watchdogs, sink,
                   track, pushed, raw, split, fetch, cadence, devices, pushes, starts, monitor>>

ForwardNext ==
    \/ \E tc \in Timecodes : ForwardTick(tc)
    \/ RunTask
    \/ \E t \in TaskIds : StopRelease(t)
    \/ \E t \in TaskIds : StopReturn(t)

ForwardSpec == ForwardInit /\ [][ForwardNext]_vars

----------------------------------------------------------------------------
(* stop() whose awaits fail *)

\* stop() suspended at "await self.media_tracker.stop_tracking()" (232) when the
\* tracker's stop raises: stop() catches nothing, the exception leaves it (and a start()
\* that awaited it) before line 233.  running: the tracker's loop goes on or not.
StopTrackingError(t, running) ==
    /\ task[t].pc = "stop_tracking"
    /\ media_tracker' = IF running /\ media_tracker # "none" THEN "running" ELSE media_tracker
    /\ task' = [task EXCEPT ![t] = IdleTask]
    /\ last' = Step("stop_tracking_error", NoPush, FALSE)
    /\ UNCHANGED <<active, orphans, timeline, lyrics, current_line_index, pending,
                   watchdogs, sink, pushed, track, fresh, aside>>

\* stop() resumes after stop_tracking() and releases the tracker (233); its clearing
\* push (236) raises: the sink keeps its content, the exception leaves stop().
StopSinkError(t) ==
    /\ task[t].pc = "stop_tracking"
    /\ media_tracker' = "none"
    /\ orphans' = OrphansAfterDrop
    /\ task' = [task EXCEPT ![t] = IdleTask]
    /\ last' = Step("stop_sink_error", NoPush, FALSE)
    /\ UNCHANGED <<active, timeline, lyrics, current_line_index, pending, watchdogs,
                   sink, pushed, track, fresh, aside>>

FailInit ==
    /\ track \in Timelines
    /\ Started
    /\ cadence = NoCadence
    /\ devices = NoDevices
    /\ pushes = NoPushes
    /\ starts = <<>>
    /\ played = None
    /\ monitor = <<>>

FailNext ==
    \/ \E c \in Callers : Stop(c)
    \/ \E t \in TaskIds : StopRelease(t)
    \/ \E t \in TaskIds : StopReturn(t)
    \/ \E t \in TaskIds, running \in BOOLEAN : StopTrackingError(t, running)
    \/ \E t \in TaskIds : StopSinkError(t)
    \/ \E tc \in Timecodes : Tick(tc)
    \/ RunTask

FailSpec == FailInit /\ [][FailNext]_vars

----------------------------------------------------------------------------
(* monitor_playback_event: the listeners handle_fetch_lyrics registers for a player *)

MaxListeners == 2    \* listeners registered for the player
MaxEvents == 3       \* state-change events of the player that are followed
MaxHandlers == 3     \* monitor_playback_event calls in progress at once

\* Values of the player's media_content_id: none, two tracks, a radio station.
NoMediaId == <<>>
ContentIds ==
    { NoMediaId, <<"spotify://track", 1>>, <<"spotify://track", 2>>, <<"library://radio", 1>> }

\* media_content_id.startswith("library://radio")
StartsWithRadio(id) == id # NoMediaId /\ id[1] = "library://radio"

\* No step of a monitor yet.
NoMonitorOp == [kind |-> "none", event |-> 0, media |-> NoMediaId, new_state |-> "paused"]

\* What a step of the monitors did: for event number e, with media_content_id id.
MonitorOp(kind, h) ==
    [kind |-> kind, event |-> h.event, media |-> h.media, new_state |-> h.new_state]

\* The handlers in progress without the one at k.
WithoutHandler(k) ==
    SubSeq(monitor.handlers, 1, k - 1) \o SubSeq(monitor.handlers, k + 1, Len(monitor.handlers))

\* The state the first fetch_lyrics service call leaves: its fetch has started a session
\* and set the last media id to the player's (741), its listener is registered (939).
MonitorInit ==
    /\ track = <<0, 1000, 2000>>
    /\ Started
    /\ cadence = NoCadence
    /\ devices = NoDevices
    /\ pushes = NoPushes
    /\ starts = <<>>
    /\ played = None
    /\ monitor = [listeners |-> 1,
                  player |-> [state |-> "playing", media |-> <<"spotify://track", 1>>],
                  last_media |-> <<"spotify://track", 1>>,
                  events |-> 0,
                  handlers |-> <<>>,
                  launched |-> [e \in 1..MaxEvents |-> 0],
                  fetches |-> 0,
                  op |-> NoMonitorOp]

\* fetch_lyrics_for_track without fingerprint, as a whole (684-809), for the player as
\* it is; m is the monitor data it finds.  same: the active session shows the player's
\* track already; synced: the provider returns a text with a timeline.
FetchWhole(m, same, synced) ==
    IF active /\ same /\ media_tracker # "none"
    THEN /\ sink' = SearchingTriple
         /\ monitor' = m
         /\ UNCHANGED <<active, media_tracker, orphans, timeline, lyrics, current_line_index>>
    ELSE /\ monitor' = [m EXCEPT !.last_media = m.player.media]
         /\ IF synced
            THEN /\ active' = TRUE
                 /\ media_tracker' = "running"
                 /\ timeline' = track
                 /\ lyrics' = LinesFor(track)
                 /\ current_line_index' = -1
                 /\ sink' = FirstLinesTriple(LinesFor(track))
                 /\ UNCHANGED orphans
            ELSE /\ active' = FALSE
                 /\ media_tracker' = "none"
                 /\ sink' = NoLyricsTriple
                 /\ UNCHANGED <<orphans, timeline, lyrics, current_line_index>>

\* handle_fetch_lyrics called once more for the player, which plays a track with title
\* and artist: its fetch, then one more listener for the same entity (939).
MonitorRegister(same, synced) ==
    /\ monitor.listeners < MaxListeners
    /\ monitor.player.state = "playing"
    /\ FetchWhole([monitor EXCEPT !.listeners = @ + 1,
                                  !.op = [NoMonitorOp EXCEPT !.kind = "register"]],
                  same, synced)
    /\ UNCHANGED <<task, pending, watchdogs, track, last, fresh, pushed, raw, split, fetch,
                   cadence, devices, pushes, starts, played>>

\* The player's state object changes to (state, media), its attributes alone possibly:
\* one state-change event, which every registered listener gets.
MonitorEvent(state, media) ==
    /\ monitor.events < MaxEvents
    /\ Len(monitor.handlers) + monitor.listeners <= MaxHandlers
    /\ LET h == [event |-> monitor.events + 1,
                 old_state |-> monitor.player.state,
                 old_media |-> monitor.player.media,
                 new_state |-> state,
                 media |-> NoMediaId,
                 radio |-> FALSE,
                 pc |-> "scheduled"]
       IN  monitor' = [monitor EXCEPT
                          !.events = @ + 1,
                          !.player = [state |-> state, media |-> media],
                          !.handlers = @ \o [k \in 1..monitor.listeners |-> h],
                          !.op = MonitorOp("event", h)]
    /\ UNCHANGED <<active, media_tracker, orphans, timeline, lyrics, current_line_index,
                   task, pending, watchdogs, sink, track, last, fresh, pushed, raw, split,
                   fetch, cadence, devices, pushes, starts, played>>

\* The call at k, suspended in stop() or at a clearing push, is left suspended at pc.
MonitorSuspend(k, h, pc, last_media, kind) ==
    monitor' = [monitor EXCEPT !.handlers[k] = [h EXCEPT !.pc = pc],
                               !.last_media = last_media,
                               !.op = MonitorOp(kind, h)]

\* "await active_lyrics_sync.stop()" when the session is active (909-910, 932-933), up
\* to the first await of stop(); else "await update_lyrics_display(hass, '', '', '')".
MonitorStopOrClear(k, h, last_media, kind) ==
    IF active
    THEN /\ active' = FALSE
         /\ IF media_tracker # "none"
            THEN /\ media_tracker' = "stopped"
                 /\ MonitorSuspend(k, h, "stop_tracking", last_media, kind)
                 /\ UNCHANGED sink
            ELSE /\ sink' = EmptyTriple
                 /\ MonitorSuspend(k, h, "stop_push", last_media, kind)
                 /\ UNCHANGED media_tracker
    ELSE /\ sink' = EmptyTriple
         /\ MonitorSuspend(k, h, "clearing", last_media, kind)
         /\ UNCHANGED <<active, media_tracker>>

\* The call at k ends without having done anything to the session.
MonitorReturn(k, h, kind) ==
    /\ monitor' = [monitor EXCEPT !.handlers = WithoutHandler(k), !.op = MonitorOp(kind, h)]
    /\ UNCHANGED <<active, media_tracker, sink>>

\* monitor_playback_event(event) from its call to its first await or its return
\* (877-933): the media id is the player's current one, the states are the event's.
\* The calls begin in the order in which they were scheduled.
MonitorRun(k) ==
    /\ k \in 1..Len(monitor.handlers)
    /\ monitor.handlers[k].pc = "scheduled"
    /\ \A j \in 1..(k - 1) : monitor.handlers[j].pc # "scheduled"
    /\ LET media_content_id == monitor.player.media
           h == [monitor.handlers[k] EXCEPT !.media = media_content_id,
                                            !.radio = StartsWithRadio(media_content_id)]
       IN  IF h.old_state = h.new_state /\ h.old_media = media_content_id
           THEN MonitorReturn(k, h, "ignored")
           ELSE IF h.new_state = "playing" /\ ~StartsWithRadio(media_content_id)
           THEN IF media_content_id # NoMediaId /\ media_content_id # monitor.last_media
                THEN MonitorStopOrClear(k, h, monitor.last_media, "changed")
                ELSE MonitorReturn(k, h, "processed")
           ELSE IF h.new_state = "playing"
           THEN MonitorStopOrClear(k, h, media_content_id, "radio")
           ELSE MonitorReturn(k, h, "not_playing")
    /\ UNCHANGED <<orphans, timeline, lyrics, current_line_index, task, pending, watchdogs,
                   track, last, fresh, pushed, raw, split, fetch, cadence, devices, pushes,
                   starts, played>>

\* The call at k resumes: inside stop() after stop_tracking() (233-236), after stop()
\* at the monitor's clearing push (912, 935), or after that push, where a call for a
\* track reads the player (913) and, with title and artist known, sets the last media
\* id and makes the task of the fetch (920-922).  known: the player has title and artist.
MonitorResume(k, known) ==
    /\ k \in 1..Len(monitor.handlers)
    /\ LET h == monitor.handlers[k]
       IN  /\ h.pc \in {"stop_tracking", "stop_push", "clearing"}
           /\ CASE h.pc = "stop_tracking" ->
                     /\ media_tracker' = "none"
                     /\ sink' = EmptyTriple
                     /\ MonitorSuspend(k, h, "stop_push", monitor.last_media, "resumed")
                [] h.pc = "stop_push" ->
                     /\ sink' = EmptyTriple
                     /\ MonitorSuspend(k, h, "clearing", monitor.last_media, "resumed")
                     /\ UNCHANGED media_tracker
                [] h.pc = "clearing" ->
                     IF h.radio
                     THEN /\ monitor' = [monitor EXCEPT !.handlers = WithoutHandler(k),
                                                        !.op = MonitorOp("radio_done", h)]
                          /\ UNCHANGED <<media_tracker, sink>>
                     ELSE IF known /\ monitor.player.state = "playing"
                     THEN /\ monitor' = [monitor EXCEPT
                                            !.handlers = WithoutHandler(k),
                                            !.last_media = h.media,
                                            !.launched[h.event] = @ + 1,
                                            !.fetches = @ + 1,
                                            !.op = MonitorOp("launch", h)]
                          /\ UNCHANGED <<media_tracker, sink>>
                     ELSE /\ monitor' = [monitor EXCEPT !.handlers = WithoutHandler(k),
                                                        !.op = MonitorOp("no_info", h)]
                          /\ sink' = IF monitor.player.state = "playing"
                                     THEN <<"Missing track or artist", "", "">>
                                     ELSE <<"Waiting for playback to start", "", "">>
                          /\ UNCHANGED media_tracker
    /\ UNCHANGED <<active, orphans, timeline, lyrics, current_line_index, task, pending,
                   watchdogs, track, last, fresh, pushed, raw, split, fetch, cadence,
                   devices, pushes, starts, played>>

\* A fetch a monitor launched runs.
MonitorFetch(same, synced) ==
    /\ monitor.fetches > 0
    /\ FetchWhole([monitor EXCEPT !.fetches = @ - 1,
                                  !.op = [NoMonitorOp EXCEPT !.kind = "fetch"]],
                  same, synced)
    /\ UNCHANGED <<task, pending, watchdogs, track, last, fresh, pushed, raw, split, fetch,
                   cadence, devices, pushes, starts, played>>

MonitorNext ==
    \/ \E same \in BOOLEAN, synced \in BOOLEAN : MonitorRegister(same, synced)
    \/ \E state \in {"playing", "paused"}, media \in ContentIds : MonitorEvent(state, media)
    \/ \E k \in 1..MaxHandlers : MonitorRun(k)
    \/ \E k \in 1..MaxHandlers, known \in BOOLEAN : MonitorResume(k, known)
    \/ \E same \in BOOLEAN, synced \in BOOLEAN : MonitorFetch(same, synced)

MonitorSpec == MonitorInit /\ [][MonitorNext]_vars

----------------------------------------------------------------------------
(* Properties *)

\* A timeline in ascending order, as the data model requires of every timeline.
NonDecreasing(t) == \A j \in 1..(Len(t) - 1) : t[j] <= t[j + 1]

\* C1: tick resolution.  A tick delivered to an active session over a non-decreasing
\* timeline with t[i-1] <= position_ms < t[i] (i >= 1) leaves current_line_index = i-1,
\* and when that differs from the index before, it pushes the triple
\* (lines[i-2] or "", lines[i-1], lines[i] or "").
C1_TickResolution ==
    [][\A tc \in Timecodes : \A i \in 1..(Len(timeline) - 1) :
          ( /\ active
            /\ NonDecreasing(timeline)
            /\ timeline[i] <= PositionMs(tc)
            /\ PositionMs(tc) < timeline[i + 1]
            /\ Tick(tc) )
          => /\ current_line_index' = i - 1
             /\ (current_line_index # i - 1)
                   => LET triple == << IF i > 1 THEN lyrics[i - 1] ELSE "",
                                       lyrics[i],
                                       IF i + 1 <= Len(lyrics) THEN lyrics[i + 1] ELSE "" >>
                      IN  /\ last'.push = triple
                          /\ pending' = Append(pending, PushTask(triple))
      ]_vars

\* A tick has moved an active session from line 0 to line 1 and pushed (A, B, C).
C1_Witness ==
    /\ last = Step("tick", <<"A", "B", "C">>, FALSE)
    /\ active
    /\ NonDecreasing(timeline)
    /\ current_line_index = 1
    /\ pending = <<PushTask(<<"A", "B", "C">>)>>

\* C2: monotonic idempotence.  A tick pushes a triple only when the index it resolves
\* differs from current_line_index; a tick that resolves the index the session already
\* has pushes nothing and changes neither the index, the timeline, the lyrics nor the sink.
C2_MonotonicIdempotence ==
    [][\A tc \in Timecodes :
          (last'.op = "tick" /\ Tick(tc))
          => LET r == Resolve(tc)
             IN  /\ (last'.push # NoPush)
                       => /\ r.kind \in {"line", "waiting"}
                          /\ r.index # current_line_index
                          /\ current_line_index' = r.index
                 /\ (r.kind \in {"line", "waiting"} /\ r.index = current_line_index)
                       => /\ last'.push = NoPush
                          /\ UNCHANGED <<current_line_index, timeline, lyrics, pending, sink>>
      ]_vars

\* A tick of an active session resolved the index the session already had: no push.
C2_Witness ==
    /\ last = Step("tick", NoPush, FALSE)
    /\ active
    /\ NonDecreasing(timeline)
    /\ current_line_index = 1
    /\ pending = <<>>
    /\ \E tc \in Timecodes : Resolve(tc) = Resolved("line", current_line_index)

\* The session's stop() has released the tracker and pushed the empty triple.
StopCleared ==
    /\ last.op \in {"stop", "stop_release"}
    /\ last.push = EmptyTriple
    /\ sink = EmptyTriple
    /\ media_tracker = "none"

\* C3: end of lyrics.  A tick with position_ms >= t[n-1] delivered to an active session
\* pushes no line triple and creates a stop() task; after it the session eventually is
\* inactive, and eventually stop() has released the tracker and pushed the empty triple.
C3_EndOfLyrics ==
    /\ [][\A tc \in Timecodes :
             ( /\ Tick(tc)
               /\ active
               /\ timeline # <<>>
               /\ lyrics # <<>>
               /\ PositionMs(tc) >= timeline[Len(timeline)] )
             => /\ last'.push = NoPush
                /\ last'.stop
                /\ pending' = Append(pending, StopTask)
                /\ UNCHANGED <<current_line_index, sink>>
         ]_vars
    /\ (last.op = "tick" /\ last.stop) ~> ~active
    /\ (last.op = "tick" /\ last.stop) ~> StopCleared

\* A tick past the last timestamp has created the stop() task of an active session.
C3_Witness ==
    /\ last = Step("tick", NoPush, TRUE)
    /\ active
    /\ media_tracker = "running"
    /\ pending = <<StopTask>>

\* C4 as stated: a tick with position_ms < t[0] sets the index to -1 and pushes the
\* waiting placeholder ("", "Waiting for first line...", lines[0]), whatever the index was.
C4_AlwaysPushesPlaceholder ==
    [][\A tc \in Timecodes :
          ( /\ Tick(tc)
            /\ active
            /\ timeline # <<>>
            /\ lyrics # <<>>
            /\ NonDecreasing(timeline)
            /\ PositionMs(tc) < timeline[1] )
          => /\ current_line_index' = -1
             /\ last'.push = <<"", "Waiting for first line...", lyrics[1]>>
      ]_vars

\* C4: before the first line.  A tick with position_ms < t[0] leaves the index at -1;
\* it pushes the waiting placeholder ("", "Waiting for first line...", lines[0]) when
\* the index was not -1 before, and pushes nothing when it was.
C4_BeforeFirstLine ==
    [][\A tc \in Timecodes :
          ( /\ active
            /\ timeline # <<>>
            /\ lyrics # <<>>
            /\ NonDecreasing(timeline)
            /\ PositionMs(tc) < timeline[1]
            /\ Tick(tc) )
          => /\ current_line_index' = -1
             /\ IF current_line_index # -1
                THEN /\ last'.push = <<"", "Waiting for first line...", lyrics[1]>>
                     /\ pending' = Append(pending, PushTask(last'.push))
                ELSE /\ last'.push = NoPush
                     /\ pending' = pending
      ]_vars

\* A tick before the first line has reset the index and pushed the placeholder.
C4_Witness ==
    /\ last = Step("tick", <<"", "Waiting for first line...", "A">>, FALSE)
    /\ active
    /\ current_line_index = -1
    /\ pending = <<PushTask(<<"", "Waiting for first line...", "A">>)>>

\* C5: default priming.  start() for a non-radio source with an initial position p,
\* t[k] <= p < t[k+1], sets current_line_index = k and displays
\* (lines[k-1] or "", lines[k], lines[k+1]) while the new tracker is not started yet.
\* With t = [0, 1000, 2000], lines = [A, B, C] and p = 0.5 s the display is ("", A, B),
\* a tick at 1.2 s then pushes (A, B, C), a tick at 2.5 s creates the stop() task, and
\* after it the sink eventually shows ("", "", "").
C5_DefaultPriming ==
    /\ [][\A c \in Callers, pos \in Timecodes : \A k \in 1..(Len(track) - 1) :
             ( /\ StartPrime(c, pos, FALSE)
               /\ NonDecreasing(track)
               /\ track[k] <= PositionMs(pos)
               /\ PositionMs(pos) < track[k + 1] )
             => /\ current_line_index' = k - 1
                /\ sink' = << IF k > 1 THEN LinesFor(track)[k - 1] ELSE "",
                              LinesFor(track)[k],
                              LinesFor(track)[k + 1] >>
                /\ last'.push = sink'
                /\ media_tracker' = "created"
         ]_vars
    /\ [][(track = <<0, 1000, 2000>>)
             => /\ \A c \in Callers :
                      StartPrime(c, 5, FALSE)
                      => (current_line_index' = 0 /\ sink' = <<"", "A", "B">>)
                /\ (Tick(12) /\ active /\ current_line_index = 0)
                      => (current_line_index' = 1 /\ last'.push = <<"A", "B", "C">>)
                /\ (Tick(25) /\ active)
                      => (last'.stop /\ last'.push = NoPush)
         ]_vars
    /\ (track = <<0, 1000, 2000>> /\ last.op = "tick" /\ last.stop) ~> (sink = <<"", "", "">>)

\* start() at 0.5 s over [0, 1000, 2000] has primed the display with ("", A, B).
C5_Witness ==
    /\ last = Step("start_prime", <<"", "A", "B">>, FALSE)
    /\ track = <<0, 1000, 2000>>
    /\ sink = <<"", "A", "B">>
    /\ current_line_index = 0
    /\ media_tracker = "created"

\* C6 as stated: no overlapping sessions.  At most one tracker runs at any time.
C6_NoOverlappingSessions == RunningTrackers <= 1

\* C7 as stated: one watchdog per session.  Never two watchdog loops are alive.
C7_OneWatchdog == LiveWatchdogs <= 1

C9_StopIdempotent ==
    [][(last'.op = "stop" /\ ~active)
          => /\ last'.push = NoPush
             /\ \A t \in TaskIds : task'[t].pc = "idle" => task'[t] = task[t]
             /\ \A t \in TaskIds : task[t].pc = "idle" => task'[t] = task[t]
             /\ UNCHANGED <<active, media_tracker, orphans, timeline, lyrics,
                            current_line_index, watchdogs, sink>>
      ]_vars

\* stop() was called on a session a stop() had already made idle, and returned at once.
C9_Witness ==
    /\ last = Step("stop", NoPush, FALSE)
    /\ ~active
    /\ media_tracker = "none"
    /\ timeline # <<>>
    /\ sink = EmptyTriple
    /\ \A t \in TaskIds : task[t].pc = "idle"

\* C10: a track change delivered to an active session creates the stop() task and
\* resynchronizes nothing (index and sink unchanged, no push); after it the session
\* eventually is inactive and eventually stop() has cleared the display.
C10_TrackChangeStops ==
    /\ [][(TrackChange /\ active)
             => /\ pending' = Append(pending, StopTask)
                /\ last'.stop
                /\ last'.push = NoPush
                /\ UNCHANGED <<current_line_index, timeline, lyrics, sink>>
         ]_vars
    /\ (last.op = "track_change" /\ active) ~> ~active
    /\ (last.op = "track_change" /\ active) ~> StopCleared

\* A track change has created the stop() task of an active session.
C10_Witness ==
    /\ last = Step("track_change", NoPush, TRUE)
    /\ active
    /\ media_tracker = "running"
    /\ pending = <<StopTask>>

\* C11 as stated: a seek delivered to an active session stops nothing, resets the index
\* and pushes exactly one triple for the position snapshot p: the line triple with
\* current_line_index = k when t[k] <= p < t[k+1], the waiting placeholder when
\* p < t[0], the finished placeholder when p >= t[n-1] (index -1 at both extremes).
C11_SeekResync ==
    [][\A tc \in Timecodes :
          ( /\ Seek(tc, TRUE)
            /\ active
            /\ timeline # <<>>
            /\ NonDecreasing(timeline) )
          => LET p == PositionMs(tc)
                 n == Len(timeline)
             IN  /\ UNCHANGED <<active, media_tracker, timeline, lyrics>>
                 /\ ~last'.stop
                 /\ pending' = Append(pending, PushTask(last'.push))
                 /\ IF p < timeline[1]
                    THEN /\ current_line_index' = -1
                         /\ last'.push = <<"", "Waiting for first line...", lyrics[1]>>
                    ELSE IF p >= timeline[n]
                    THEN /\ current_line_index' = -1
                         /\ last'.push = <<"", "Lyrics finished", "">>
                    ELSE \A k \in 1..(n - 1) :
                            (timeline[k] <= p /\ p < timeline[k + 1])
                            => /\ current_line_index' = k - 1
                               /\ last'.push = << IF k > 1 THEN lyrics[k - 1] ELSE "",
                                                  lyrics[k], lyrics[k + 1] >>
      ]_vars

\* C12 as stated: every delayed callback checks the active flag.  A tick, a seek or a
\* watchdog wake-up that runs while active is false changes neither current_line_index
\* nor the sink and creates no push.
C12_CallbacksCheckActive ==
    [][(last'.op \in {"tick", "seek", "watchdog"} /\ ~active)
          => /\ last'.push = NoPush
             /\ UNCHANGED <<current_line_index, sink, pending>>
      ]_vars

\* C17: loading triple first.  A start() suspends for the first time of the new session
\* in the push of ("", "Loading lyrics...", lines[0] or ""); its priming and fallback
\* pushes, the creation of its tracker (whose ticks come later) and of its watchdog all
\* happen in later steps of the same start().
C17_LoadingFirst ==
    [][ /\ \A t \in TaskIds :
              (task'[t].pc = "loading" /\ task[t].pc # "loading")
              => /\ task[t].pc = "idle" \/ (task[t].pc = "stop_push" /\ task[t].nested)
                 /\ last'.op = "start"
                 /\ last'.push = <<"", "Loading lyrics...",
                                   IF Len(lyrics') > 0 THEN lyrics'[1] ELSE "">>
                 /\ sink' = last'.push
        /\ \A t \in TaskIds :
              (task'[t].pc \in {"primed", "fallback", "start_tracking"} /\ task[t].pc # task'[t].pc)
              => task[t].pc \in {"loading", "primed", "fallback"}
        /\ (last'.op \in {"start_prime", "start_fallback"})
              => \E t \in TaskIds : task[t].pc \in {"loading", "primed"} /\ task'[t] # task[t]
        /\ (media_tracker' = "created" /\ media_tracker # "created")
              => \E t \in TaskIds : task[t].pc = "loading" /\ task'[t] # task[t]
        /\ (QueuedWatchdogs' > QueuedWatchdogs)
              => \E t \in TaskIds : task[t].pc = "start_tracking" /\ task'[t] # task[t]
      ]_vars

\* start() of a second session has pushed the loading triple and nothing else yet.
C17_Witness ==
    /\ last = Step("start", <<"", "Loading lyrics...", "A">>, FALSE)
    /\ sink = <<"", "Loading lyrics...", "A">>
    /\ \E t \in TaskIds : task[t].pc = "loading"
    /\ current_line_index = -1
    /\ LiveWatchdogs > 0

\* C18 as stated: continuous-source priming.  start() for a radio source with initial
\* position p: when some entry (k in 0..n-1) has p < t[k] < p + 10000, priming takes the
\* smallest such k, sets current_line_index = k and displays
\* (lines[k-1] or "", lines[k], lines[k+1] or "").
C18_ContinuousPriming ==
    [][\A c \in Callers, pos \in Timecodes :
          (StartPrime(c, pos, TRUE) /\ NonDecreasing(track))
          => LET p == PositionMs(pos)
                 window == { k \in 1..Len(track) : p < track[k] /\ track[k] < p + 10000 }
                 k == Min(window)
             IN  (window # {})
                 => /\ current_line_index' = k - 1
                    /\ sink' = << IF k > 1 THEN LinesFor(track)[k - 1] ELSE "",
                                  LinesFor(track)[k],
                                  IF k + 1 <= Len(track) THEN LinesFor(track)[k + 1] ELSE "" >>
      ]_vars

\* C19 as stated: priming fallback.  start() with an initial position that neither search matches
\* (before t[0], at or after t[n-1], or n = 1) leaves current_line_index at -1 and
\* displays ("", lines[0], lines[1] or "") before the tracker is started; and every
\* triple start() itself displays has a non-empty current line.
C19_PrimingFallback ==
    [][ /\ \A c \in Callers, pos \in Timecodes, radio \in BOOLEAN :
              ( /\ StartPrime(c, pos, radio)
                /\ NonDecreasing(track)
                /\ \/ PositionMs(pos) < track[1]
                   \/ PositionMs(pos) >= track[Len(track)]
                   \/ Len(track) = 1
                /\ radio => FindUpcoming(track, PositionMs(pos)) = 0 )
              => /\ current_line_index' = -1
                 /\ sink' = <<"", LinesFor(track)[1],
                              IF Len(track) > 1 THEN LinesFor(track)[2] ELSE "">>
                 /\ last' = Step("start_fallback", sink', FALSE)
                 /\ media_tracker' = "created"
        /\ (last'.op \in {"start", "start_prime", "start_fallback"})
              => /\ last'.push # NoPush
                 /\ last'.push[2] # ""
                 /\ sink' = last'.push
        /\ \A t \in TaskIds :
              (task'[t].pc = "start_tracking" /\ task[t].pc # "start_tracking")
              => task[t].pc \in {"loading", "primed", "fallback"}
      ]_vars

\* C13 as stated: watchdog trigger condition.  At a watchdog wake-up in an active
\* session the watchdog forces a display push if and only if no triple reached the sink
\* during the window that ends at the wake-up.
C13_WatchdogTrigger ==
    [][(last'.op = "watchdog" /\ active)
          => ((last'.push # NoPush) <=> ~pushed)
      ]_vars

C15_WatchdogResilience ==
    [][(last'.op = "watchdog_error" /\ active)
          => LiveWatchdogs' = LiveWatchdogs
      ]_vars

\* C16 as stated: sink errors are swallowed.  A failing push (in start(), in a push
\* task of a tick or a seek, in a watchdog cycle) leaves active, the attached tracker
\* and the watchdog loops as they were, and a start() whose push failed goes on.
C16_SinkErrorsSwallowed ==
    [][(last'.op \in {"start_sink_error", "push_sink_error", "watchdog_error"})
          => /\ UNCHANGED <<active, media_tracker>>
             /\ LiveWatchdogs' = LiveWatchdogs
             /\ (last'.op = "start_sink_error") => \E t \in Callers : task'[t].pc # "idle"
      ]_vars

\* The lines of a raw text that carry a well-formed tag and a text.
Accepted(line) == LineOutcome(line).kind # "skip"

\* C20 as stated: timeline parsing keeps offsets and lines paired 1:1 and in input
\* order.  For every raw text lyricSplit returns (timeline, lines) of equal length, the
\* j-th accepted line contributing the j-th pair, its offset (minutes*60 + seconds)*1000.
C20_ParsePairs ==
    split.done
    => /\ ~split.raised
       /\ Len(split.timeline) = Len(split.lrc)
       /\ Len(split.timeline) = Len(SelectSeq(raw, Accepted))
       /\ \A j \in 1..Len(SelectSeq(raw, Accepted)) :
             LET line == SelectSeq(raw, Accepted)[j]
             IN  /\ split.timeline[j] = IntOf(line.time[1]) * 60000 + Centis(line.time[2]) * 10
                 /\ split.lrc[j] = Strip(line.rest)

\* A line that starts with a bracket holding minute digits, ':' and seconds with two
\* decimals.
WellFormedTag(line) ==
    /\ line.lead \in {"[0", "[4"}
    /\ line.closed
    /\ Len(line.time) = 2
    /\ line.time[1] \in {"00", "01", "45"}
    /\ line.time[2] \in {"01.50", "02.01", "03.00"}

TaggedText(line) == WellFormedTag(line) /\ Strip(line.rest) # ""

\* C21 as stated: acceptance rule of the parser.  When lyricSplit returns, the timeline
\* has one entry for every line that starts with a well-formed timestamp bracket (any
\* minute digits) followed by non-empty text, and none for a line without a leading
\* bracket or without text.
C21_AcceptanceRule ==
    (split.done /\ ~split.raised)
    => /\ Len(split.lrc) = Len(SelectSeq(raw, TaggedText))
       /\ \A j \in 1..Len(SelectSeq(raw, TaggedText)) :
             split.lrc[j] = Strip(SelectSeq(raw, TaggedText)[j].rest)

\* A bracketed line whose timestamp int() and float() convert.
Convertible(line) ==
    /\ line.lead \in {"[0", "[1", "[2", "[3"}
    /\ line.closed
    /\ Strip(line.rest) # ""
    /\ Len(line.time) >= 2
    /\ IsInt(line.time[1])
    /\ IsFloat(line.time[2])

\* C22 as stated: malformed timestamps are not fatal.  lyricSplit returns for every raw
\* text; a bracketed line whose timestamp cannot be converted to an offset adds nothing,
\* and every other acceptable line of the text is returned.
C22_MalformedNotFatal ==
    split.done
    => /\ ~split.raised
       /\ Len(split.timeline) = Len(SelectSeq(raw, LAMBDA l : Convertible(l) /\ l.time[2] # "inf"))
       /\ Len(split.lrc) = Len(split.timeline)

\* C23 as stated: timeline monotonicity.  The timeline held by a started session, made
\* by lyricSplit of the provider's text and passed unchanged to start(), is
\* non-decreasing.
C23_TimelineMonotonic == NonDecreasing(timeline)

\* A start() is in progress in task t (its own stop() of the session before included).
Starting(t) ==
    \/ task[t].pc \in {"loading", "primed", "fallback", "start_tracking"}
    \/ task[t].nested

\* C24: an empty timeline is rejected upstream.  A fetch whose text parses to a timeline
\* without entries shows ("", "Lyrics not synced", "") and returns without calling
\* start(); no session is starting or active with an empty timeline.
C24_EmptyRejected ==
    [][ /\ ( /\ fetch.pc = "lookup"
             /\ fetch'.pc # "lookup"
             /\ ~lyricSplit(raw).raised
             /\ lyricSplit(raw).timeline = <<>> )
          => /\ sink' = NotSyncedTriple
             /\ fetch'.pc = "idle"
             /\ UNCHANGED <<active, media_tracker, task, timeline, lyrics, current_line_index>>
        /\ (active' \/ \E t \in TaskIds : Starting(t)')
          => timeline' # <<>>
      ]_vars

\* A fetch got a text without any timed line and reported it.
C24_Witness ==
    /\ last = Step("fetch", NotSyncedTriple, FALSE)
    /\ sink = NotSyncedTriple
    /\ split.done
    /\ split.timeline = <<>>
    /\ Len(raw) > 0
    /\ fetch.pc = "idle"
    /\ \A t \in TaskIds : task[t].pc = "idle"

\* C25: a missing position is rejected before Active.  A fetch that has no position
\* after asking the player calls neither the provider nor start(): it returns, after
\* stopping the session if one is active; a start() begins and a session becomes active
\* only in a fetch that has a position.
C25_MissingPositionRejected ==
    [][ /\ (fetch.pc = "searching" /\ fetch'.pc # "searching" /\ fetch'.pos = None)
          => /\ fetch'.pc \in {"idle", "returning"}
             /\ ~active'
             /\ active => last' = Step("stop", last'.push, FALSE)
             /\ UNCHANGED <<timeline, lyrics, raw, split, track>>
        /\ (fetch.pc = "returning" /\ fetch' # fetch)
          => /\ fetch'.pc = "idle"
             /\ \A t \in TaskIds : ~Starting(t)'
        /\ (active' /\ ~active) => fetch.pos # None
        /\ \A t \in TaskIds : (Starting(t)' /\ ~Starting(t)) => fetch.pos # None
      ]_vars

\* A fetch without position found a session active, stopped it and is about to return.
C25_Witness ==
    /\ fetch = [pc |-> "returning", pos |-> None]
    /\ ~active
    /\ media_tracker = "stopped"
    /\ last.op = "stop"
    /\ timeline # <<>>

\* C29: the closest-match fallback of the watchdog is unreachable.  For a timeline of at
\* least two entries, sorted or not, and a position p with t[0] <= p < t[n-1], the
\* interval search finds an i with t[i-1] <= p < t[i]: a stale watchdog cycle pushes
\* the triple of that interval, and a tick that is not past the end resolves to a line.
C29_ClosestUnreachable ==
    [][\A tc \in Timecodes :
          ( /\ Len(timeline) >= 2
            /\ At(timeline, 0) <= PositionMs(tc)
            /\ PositionMs(tc) < At(timeline, Len(timeline) - 1) )
          => /\ FindLine(timeline, PositionMs(tc)) # 0
             /\ (Stale /\ media_tracker # "none" /\ WatchdogWake(TRUE, tc))
                   => last'.push = LineTriple(lyrics, FindLine(timeline, PositionMs(tc)))
             /\ (active /\ Tick(tc))
                   => Resolve(tc).kind = "line"
      ]_vars

\* A stale watchdog cycle over the unsorted timeline 1000, 0, 2000 found the interval
\* of a position between t[0] and t[2] and pushed its triple.
C29_Witness ==
    /\ timeline = <<1000, 0, 2000>>
    /\ last = Step("watchdog", <<"A", "B", "C">>, FALSE)
    /\ sink = <<"A", "B", "C">>
    /\ watchdogs.pushing = 1

\* C30: each of the first 5 watchdog cycles after start sleeps 0.5 s and compares
\* staleness with a 0.5 s window, every later cycle sleeps 3 s and compares with a 3 s
\* window: in every cycle the window used equals the interval just slept.
C30_WatchdogCadence ==
    cadence.cycles > 0 =>
        /\ cadence.window = cadence.slept
        /\ cadence.cycles <= 5 => (cadence.slept = 5 /\ cadence.window = 5)
        /\ cadence.cycles > 5 => (cadence.slept = 30 /\ cadence.window = 30)

\* C26: the synchronizer and the last media id are held per device, at most one
\* synchronizer object ever exists per device, and an operation performed for one
\* player leaves the synchronizer and the last media id of every other player
\* unchanged.
C26_DeviceIsolation ==
    [][ /\ \A k \in Keys : devices'.data[k].objects <= 1
        /\ \A p \in Players, q \in Players :
              (q # p /\ devices'.op.player = p)
              => devices'.data[KeyOf(q)] = devices.data[KeyOf(q)]
      ]_vars

\* C27: in every poll cycle a sample whose media identity differs from the recorded one
\* yields a track-change event and never a seek event, whatever the position; a seek
\* event is emitted only when the identity is unchanged; the synchronizer stops on a
\* track change and, on a seek, does not stop and resynchronizes to the tracker's
\* position.
C27_TrackChangeVsSeek ==
    [][\A differs \in BOOLEAN, deviates \in BOOLEAN, tc \in Timecodes :
          Poll(differs, deviates, tc)
          => /\ differs => /\ last'.op = "track_change"
                           /\ last'.stop
                           /\ pending' = Append(pending, StopTask)
             /\ last'.op = "seek" => (~differs /\ deviates)
             /\ (last'.op = "seek" /\ active)
                  => /\ ~last'.stop
                     /\ UNCHANGED <<active, media_tracker, timeline, lyrics, task>>
                     /\ last'.push = SeekTriple(PositionMs(tc))
                     /\ pending' = Append(pending, PushTask(SeekTriple(PositionMs(tc))))
                     /\ current_line_index' = FindLine(timeline, PositionMs(tc)) - 1
      ]_vars

\* C28: sink pushes take effect in emission order and atomically.  Once every push in
\* progress has completed, the three fields of the sink hold the triple emitted last:
\* no mix of two triples, no earlier triple over a later one, and the empty triple
\* after stop() when no start() follows.
C28_PushesInOrder ==
    pushes.writers = <<>> => sink = pushes.emitted

\* C31: watchdog extremes.  A forced watchdog push of an active session pushes
\* ("", "Coming up...", lines[0]) when the position is before t[0] and
\* (lines[n-1], "End of lyrics", "") when it is at or past t[n-1]; the session stays
\* active.
C31_WatchdogExtremes ==
    [][\A tc \in Timecodes :
          ( /\ active
            /\ Stale
            /\ media_tracker # "none"
            /\ timeline # <<>>
            /\ WatchdogWake(TRUE, tc) )
          => /\ PositionMs(tc) < timeline[1]
                  => last'.push = <<"", "Coming up...", lyrics[1]>>
             /\ PositionMs(tc) >= timeline[Len(timeline)]
                  => last'.push = <<lyrics[Len(lyrics)], "End of lyrics", "">>
             /\ active'
      ]_vars

\* C32: watchdog frame condition.  No step of a watchdog loop, forcing a push or not,
\* changes current_line_index, timeline, lyrics or active; current_line_index changes
\* only in start(), in tick resolution and in a seek resync.
C32_WatchdogFrame ==
    [][ /\ last'.op \in {"watchdog_start", "watchdog", "watchdog_resume", "watchdog_error"}
            => UNCHANGED <<current_line_index, timeline, lyrics, active>>
        /\ current_line_index' # current_line_index
            => last'.op \in {"start", "start_sink_error", "start_prime", "tick", "seek"}
      ]_vars

\* A watchdog forced the triple of the second line while current_line_index stayed at
\* the first line.
C32_Witness ==
    /\ last = Step("watchdog", <<"A", "B", "C">>, FALSE)
    /\ current_line_index = 0
    /\ active
    /\ watchdogs.pushing > 0

\* C33: the watchdog forces pushes only while the tracker reports "playing".  A cycle
\* in which the synchronizer holds no tracker, or its tracker is not playing, pushes
\* nothing, creates no task and leaves the last-update time as it is, stale or not.
C33_OnlyWhilePlaying ==
    [][ ( \/ WatchdogWake(FALSE, None)
          \/ (media_tracker = "none" /\ \E tc \in Timecodes : WatchdogWake(TRUE, tc)) )
        => /\ last'.push = NoPush
           /\ UNCHANGED <<sink, fresh, pending>>
           /\ watchdogs'.pushing = watchdogs.pushing
      ]_vars

\* The watchdog of an active session whose display is stale woke with a tracker that
\* is not playing, and pushed nothing.
C33_Witness ==
    /\ last = Step("watchdog", NoPush, FALSE)
    /\ active
    /\ ~fresh
    /\ media_tracker = "running"
    /\ Len(timeline) > 1
    /\ watchdogs.pushing = 0

\* C34: index range.  In every reachable state of a synchronizer whose timeline has n
\* entries, -1 <= current_line_index <= n - 2: priming, tick resolution and seek
\* resync never make the last timeline entry the current line.
C34_IndexRange ==
    /\ current_line_index >= -1
    /\ current_line_index <= Len(timeline) - 2

\* C35: no backwards jump without a seek.  In a session, of a default or of a
\* continuous source, whose initial position and tick positions never decrease and that
\* gets no seek, a tick that pushes never displays a line before the one displayed last.
C35_NoBackwardsJump ==
    [][ (last'.op = "tick" /\ last'.push # NoPush)
            => current_line_index' >= current_line_index ]_vars

\* C36: active implies tracker attached.  In every reachable state, under any
\* interleaving of start() and stop() calls suspended at their awaits, an active
\* synchronizer holds a position tracker that has been started.
C36_ActiveHasTracker == active => media_tracker = "running"

\* No stop() is in progress, called or made by create_task.
NoStopInProgress ==
    /\ \A t \in TaskIds : task[t].pc = "idle"
    /\ \A k \in 1..Len(pending) : pending[k].kind # "stop"

\* C37: stop() never leaves a half-stopped session.  After any stop() of an active
\* session, returned normally or ended by a failing tracker stop or sink push, active is
\* false and the tracker reference is released: no tracker stays attached that a later
\* stop(), a no-op when active is false, cannot release.
C37_NoHalfStopped ==
    (NoStopInProgress /\ ~active) => media_tracker = "none"

\* C38: a skipped fetch is a no-op for the running session.  When a fetch without
\* fingerprint finds an active session on the same title and artist and returns, the
\* session is neither stopped nor restarted, its timeline, lyrics and index are
\* unchanged, and the sink does not show what the request wrote.
C38_SkippedFetchNoOp ==
    [][ (fetch.pc = "searching" /\ last'.op = "fetch_skipped")
            => /\ UNCHANGED <<active, media_tracker, orphans, timeline, lyrics,
                              current_line_index, task, pending, watchdogs>>
               /\ sink' # SearchingTriple ]_vars

\* C39: the policy of the playback monitor.  A monitor launches a fetch only when the
\* event's new state is playing and the media content id is not empty, does not start
\* with "library://radio" and differs from the last processed id; on launch the last
\* processed id becomes that id; an event with unchanged state and unchanged id is
\* ignored entirely; when radio content starts playing the active session is stopped,
\* the sink is cleared and no fetch is launched.
C39_MonitorPolicy ==
    [][ monitor' # monitor =>
          /\ monitor'.op.kind = "launch" =>
                /\ monitor'.op.new_state = "playing"
                /\ monitor'.op.media # NoMediaId
                /\ ~StartsWithRadio(monitor'.op.media)
                /\ monitor'.op.media # monitor.last_media
                /\ monitor'.last_media = monitor'.op.media
          /\ monitor'.op.kind = "ignored" =>
                /\ UNCHANGED <<active, media_tracker, sink, timeline, lyrics,
                               current_line_index>>
                /\ monitor'.last_media = monitor.last_media
                /\ monitor'.fetches = monitor.fetches
          /\ monitor'.op.kind = "radio" =>
                /\ ~active'
                /\ active \/ sink' = EmptyTriple
                /\ monitor'.last_media = monitor'.op.media
          /\ StartsWithRadio(monitor'.op.media) => monitor'.fetches = monitor.fetches
      ]_vars

\* C40: at most one fetch per player event.  For one media player a single
\* state-change event launches at most one fetch, however often the fetch_lyrics
\* service has been called for the player before.
C40_OneFetchPerEvent == \A e \in 1..MaxEvents : monitor.launched[e] <= 1

====
